---- MODULE Spec2Model ----
(***************************************************************************)
(* A verification model of botx (anclax/botx): the YAML-to-Go generator    *)
(* in pkg/codegen, and the runtime it generates code against (router,      *)
(* session, connectors in pkg/core).                                       *)
(*                                                                         *)
(* Go strings are modelled as sequences of one-character strings, so that  *)
(* len(), prefix tests, sorting and scanning are computed as the code      *)
(* computes them.  Generated Go code is modelled by what it does when it   *)
(* runs: a dispatch `switch` is a sequence of cases tried in order.        *)
(***************************************************************************)
EXTENDS Integers, Sequences, FiniteSets, TLC

VARIABLES
    \* ---- route/submit dispatch (generator.go renderPagesDispatch) ----
    docPages,      \* Doc.Pages: the set of declared pages of the document
    routeTable,    \* the generated onRoute switch, a sequence of cases
    submitTable,   \* the generated onSubmit switch, a sequence of cases
    dispatched,    \* result of the last onRoute/onSubmit call
    \* ---- one conversation at run time (CLIBot + generated BotxHandler) ----
    session,       \* the MemorySession of the chat: present keys and values
    pc,            \* "idle", or "loop" while handleUpdate is inside its for loop
    sent,          \* messages sent to the frontend during the current update
    submits,       \* submit callbacks dispatched during the current update
    obs,           \* the update being handled and what it found stored
    histSeen,      \* history of the router getRouter returned last
    \* ---- validator table (generator.go prepareValidators, Validate) ----
    formDoc,       \* Doc.Pages with the forms and their fields' validators
    validators,    \* g.validators: the generated (Name, MethodName) table
    validated,     \* result of the last generated Validate call
    \* ---- form unmarshalling (generator.go renderForms) ----
    formDecl,      \* a page's Form: its declared fields and its required list
    formFields,    \* sortedFormFields: the fields the unmarshal function reads
    unmarshalled,  \* result of the last generated unmarshalForm<Page> call
    \* ---- pagination helper (generator.go renderPaginationHelper) ----
    pageArgs,      \* arguments of a call of the generated pagination helper
    grid,          \* the button grid the call returned
    \* ---- localized texts (generator.go renderI18n, withLanguage) ----
    i18nDoc,       \* Doc.I18n: the default language and the entries
    i18nGen,       \* the generated i18nDefault constant and i18nEntries map
    looked,        \* the last localized lookup: its inputs and its text
    \* ---- text expressions (generator.go stringExprToGo) ----
    exprIn,        \* a text field of a page and the page it is declared on
    exprOut,       \* the Go expression the generator emitted for it
    \* ---- document normalization (parser.go normalizeDoc) ----
    rawDoc,        \* the YAML tree of a document as it was read
    normDoc,       \* the tree normalizeDoc made of it
    \* ---- runs of the pipeline (parser.go Parse, generator.go Generate) ----
    outputs,       \* what each run of the pipeline on the document returned
    \* ---- component structs (generator.go schemaFields) ----
    compSchema,    \* a schema under components: its properties and required list
    compFields,    \* the fields of the struct generated for it, in order
    \* ---- sessions of the chats (session MemorySessionManager) ----
    mgrSessions,   \* MemorySessionManager.sessions: the session of each chat ID
    sessData,      \* MemorySession.data of every session created so far
    callers,       \* the goroutines that call Get: where each is, what it holds
    written,       \* for each chat, the last completed Set or Delete of each key
    \* ---- parameter parsing (generator.go renderParameterParsers) ----
    paramCall,     \* a page's parameters and the route that ParseParametersPage is called on
    parsed,        \* what the generated ParseParametersPage returned
    \* ---- the fallback error page (generator.go preparePages, render) ----
    errorDoc,      \* Doc.Pages of a document that may declare the /error page
    generated,     \* the dispatch cases, state-provider methods and parameter parsers emitted
    errorRouted,   \* result of the last onRoute/onSubmit call of the generated handler
    \* ---- button sources of a page (unmarshal.go Buttons, generator.go renderButtons) ----
    buttonsNode,   \* the buttons node of a page's view, and whether the document has a navbar
    buttonsOut,    \* the Buttons decoded from the node and the grids emitted for the page
    \* ---- runs of the generator (generator.go Generate, GenerateRaw) ----
    genDoc,        \* the document handed to the generator, or none
    genOut,        \* what the last run of the generator returned
    \* ---- pagination helper emission (generator.go paginationHelpers) ----
    helperDoc,     \* Doc.Pages with, for each page, whether its buttons paginate
    helperGen,     \* the pagination helpers emitted and the helper each renderer calls
    shown,         \* the prev and next controls of the last paginated page rendered
    \* ---- text handlers (generator.go coreTemplate HandleTextMessage) ----
    handlersDoc,   \* Doc.Handlers and whether a command handler is registered
    textCalls,     \* the handler methods the last HandleTextMessage called
    \* ---- the router of one conversation ----
    routerSess,    \* the session the router wraps
    routerOp,      \* the last Router call: its argument, result and the history before
    \* ---- the page names of one document ----
    namedDoc,      \* the pages of the document, by path
    pageNames      \* the path and the name of every prepared page

dispVars == <<docPages, routeTable, submitTable, dispatched>>

convVars == <<session, pc, sent, submits, obs, histSeen>>

valVars == <<formDoc, validators, validated>>

formVars == <<formDecl, formFields, unmarshalled>>

pagVars == <<pageArgs, grid>>

i18nVars == <<i18nDoc, i18nGen, looked>>

exprVars == <<exprIn, exprOut>>

normVars == <<rawDoc, normDoc>>

pipeVars == <<outputs>>

compVars == <<compSchema, compFields>>

mgrVars == <<mgrSessions, sessData, callers, written>>

paramVars == <<paramCall, parsed>>

errVars == <<errorDoc, generated, errorRouted>>

btnVars == <<buttonsNode, buttonsOut>>

genVars == <<genDoc, genOut>>

hlpVars == <<helperDoc, helperGen, shown>>

txtVars == <<handlersDoc, textCalls>>

rtrVars == <<routerSess, routerOp>>

namVars == <<namedDoc, pageNames>>

vars == <<docPages, routeTable, submitTable, dispatched,
          session, pc, sent, submits, obs, histSeen,
          formDoc, validators, validated,
          formDecl, formFields, unmarshalled,
          pageArgs, grid,
          i18nDoc, i18nGen, looked,
          exprIn, exprOut,
          rawDoc, normDoc,
          outputs,
          compSchema, compFields,
          mgrSessions, sessData, callers, written,
          paramCall, parsed,
          errorDoc, generated, errorRouted,
          buttonsNode, buttonsOut,
          genDoc, genOut,
          helperDoc, helperGen, shown,
          handlersDoc, textCalls,
          routerSess, routerOp,
          namedDoc, pageNames>>

\* Outside the dispatch specification nothing of the generator moves, and
\* outside the conversation specification no conversation exists.
notDispVars == <<convVars, valVars, formVars, pagVars, i18nVars, exprVars, normVars, pipeVars, compVars, mgrVars, paramVars, errVars, btnVars, genVars, hlpVars, txtVars, rtrVars, namVars>>

notConvVars == <<dispVars, valVars, formVars, pagVars, i18nVars, exprVars, normVars, pipeVars, compVars, mgrVars, paramVars, errVars, btnVars, genVars, hlpVars, txtVars, rtrVars, namVars>>

notValVars == <<dispVars, convVars, formVars, pagVars, i18nVars, exprVars, normVars, pipeVars, compVars, mgrVars, paramVars, errVars, btnVars, genVars, hlpVars, txtVars, rtrVars, namVars>>

notFormVars == <<dispVars, convVars, valVars, pagVars, i18nVars, exprVars, normVars, pipeVars, compVars, mgrVars, paramVars, errVars, btnVars, genVars, hlpVars, txtVars, rtrVars, namVars>>

notPagVars == <<dispVars, convVars, valVars, formVars, i18nVars, exprVars, normVars, pipeVars, compVars, mgrVars, paramVars, errVars, btnVars, genVars, hlpVars, txtVars, rtrVars, namVars>>

notI18nVars == <<dispVars, convVars, valVars, formVars, pagVars, exprVars, normVars, pipeVars, compVars, mgrVars, paramVars, errVars, btnVars, genVars, hlpVars, txtVars, rtrVars, namVars>>

notExprVars == <<dispVars, convVars, valVars, formVars, pagVars, i18nVars, normVars, pipeVars, compVars, mgrVars, paramVars, errVars, btnVars, genVars, hlpVars, txtVars, rtrVars, namVars>>

notNormVars == <<dispVars, convVars, valVars, formVars, pagVars, i18nVars, exprVars, pipeVars, compVars, mgrVars, paramVars, errVars, btnVars, genVars, hlpVars, txtVars, rtrVars, namVars>>

notPipeVars == <<dispVars, convVars, valVars, formVars, pagVars, i18nVars, exprVars, normVars, compVars, mgrVars, paramVars, errVars, btnVars, genVars, hlpVars, txtVars, rtrVars, namVars>>

\* A run of the pipeline moves the normalization and the pipeline variables.
notRunVars == <<dispVars, convVars, valVars, formVars, pagVars, i18nVars, exprVars, compVars, mgrVars, paramVars, errVars, btnVars, genVars, hlpVars, txtVars, rtrVars, namVars>>

notCompVars == <<dispVars, convVars, valVars, formVars, pagVars, i18nVars, exprVars, normVars, pipeVars, mgrVars, paramVars, errVars, btnVars, genVars, hlpVars, txtVars, rtrVars, namVars>>

notMgrVars == <<dispVars, convVars, valVars, formVars, pagVars, i18nVars, exprVars, normVars, pipeVars, compVars, paramVars, errVars, btnVars, genVars, hlpVars, txtVars, rtrVars, namVars>>

notParamVars == <<dispVars, convVars, valVars, formVars, pagVars, i18nVars, exprVars, normVars, pipeVars, compVars, mgrVars, errVars, btnVars, genVars, hlpVars, txtVars, rtrVars, namVars>>

notErrVars == <<dispVars, convVars, valVars, formVars, pagVars, i18nVars, exprVars, normVars, pipeVars, compVars, mgrVars, paramVars, btnVars, genVars, hlpVars, txtVars, rtrVars, namVars>>

notBtnVars == <<dispVars, convVars, valVars, formVars, pagVars, i18nVars, exprVars, normVars, pipeVars, compVars, mgrVars, paramVars, errVars, genVars, hlpVars, txtVars, rtrVars, namVars>>

notGenVars == <<dispVars, convVars, valVars, formVars, pagVars, i18nVars, exprVars, normVars, pipeVars, compVars, mgrVars, paramVars, errVars, btnVars, hlpVars, txtVars, rtrVars, namVars>>

notHlpVars == <<dispVars, convVars, valVars, formVars, pagVars, i18nVars, exprVars, normVars, pipeVars, compVars, mgrVars, paramVars, errVars, btnVars, genVars, txtVars, rtrVars, namVars>>

notTxtVars == <<dispVars, convVars, valVars, formVars, pagVars, i18nVars, exprVars, normVars, pipeVars, compVars, mgrVars, paramVars, errVars, btnVars, genVars, hlpVars, rtrVars, namVars>>

notRtrVars == <<dispVars, convVars, valVars, formVars, pagVars, i18nVars, exprVars, normVars, pipeVars, compVars, mgrVars, paramVars, errVars, btnVars, genVars, hlpVars, txtVars, namVars>>

notNamVars == <<dispVars, convVars, valVars, formVars, pagVars, i18nVars, exprVars, normVars, pipeVars, compVars, mgrVars, paramVars, errVars, btnVars, genVars, hlpVars, txtVars, rtrVars>>

-----------------------------------------------------------------------------
(* Strings                                                                 *)

\* Byte values of the characters the model uses (ASCII), for sort.Strings.
CharCode(c) ==
    CASE c = " " -> 32 [] c = "$" -> 36 [] c = "%" -> 37 [] c = "," -> 44
      [] c = "." -> 46 [] c = "/" -> 47
      [] c = "1" -> 49 [] c = "2" -> 50 [] c = "7" -> 55
      [] c = "A" -> 65 [] c = "B" -> 66 [] c = "D" -> 68 [] c = "E" -> 69
      [] c = "F" -> 70 [] c = "H" -> 72 [] c = "I" -> 73 [] c = "N" -> 78
      [] c = "X" -> 88 [] c = "Z" -> 90
      [] c = "a" -> 97 [] c = "b" -> 98 [] c = "c" -> 99 [] c = "d" -> 100
      [] c = "e" -> 101 [] c = "f" -> 102 [] c = "h" -> 104 [] c = "i" -> 105
      [] c = "n" -> 110 [] c = "o" -> 111
      [] c = "r" -> 114 [] c = "t" -> 116 [] c = "v" -> 118 [] c = "w" -> 119
      [] c = "x" -> 120 [] c = "z" -> 122 [] c = "{" -> 123 [] c = "}" -> 125
      [] OTHER -> 63

LowerLetters ==
    {"a", "b", "c", "d", "e", "f", "h", "i", "n", "o", "r", "t", "v", "w", "x", "z"}
UpperLetters == {"A", "B", "D", "E", "F", "H", "I", "N", "X", "Z"}
Digits == {"1", "2", "7"}

\* unicode.ToUpper on one character.
ToUpperChar(c) ==
    CASE c = "a" -> "A" [] c = "b" -> "B" [] c = "d" -> "D" [] c = "e" -> "E"
      [] c = "f" -> "F" [] c = "h" -> "H" [] c = "i" -> "I" [] c = "n" -> "N"
      [] c = "x" -> "X" [] c = "z" -> "Z"
      [] OTHER -> c

\* unicode.ToLower on one character.
ToLowerChar(c) ==
    CASE c = "A" -> "a" [] c = "B" -> "b" [] c = "D" -> "d" [] c = "E" -> "e"
      [] c = "F" -> "f" [] c = "H" -> "h" [] c = "I" -> "i" [] c = "N" -> "n"
      [] c = "X" -> "x" [] c = "Z" -> "z"
      [] OTHER -> c

\* strings.ToLower
ToLower(s) == [k \in 1..Len(s) |-> ToLowerChar(s[k])]

\* s[from..] of a Go string (1-based here), empty when from is past the end.
Drop(s, n) == SubSeq(s, n + 1, Len(s))
Take(s, n) == SubSeq(s, 1, n)

\* strings.HasPrefix / strings.HasSuffix
HasPrefix(s, p) == Len(p) <= Len(s) /\ Take(s, Len(p)) = p
HasSuffix(s, p) == Len(p) <= Len(s) /\ Drop(s, Len(s) - Len(p)) = p

RECURSIVE TrimLeftChar(_, _)
TrimLeftChar(s, c) ==
    IF s # <<>> /\ Head(s) = c THEN TrimLeftChar(Tail(s), c) ELSE s

RECURSIVE TrimRightChar(_, _)
TrimRightChar(s, c) ==
    IF s # <<>> /\ s[Len(s)] = c THEN TrimRightChar(SubSeq(s, 1, Len(s) - 1), c) ELSE s

\* strings.Trim(s, c) for a one-character cutset
TrimChar(s, c) == TrimRightChar(TrimLeftChar(s, c), c)

\* strings.TrimSpace over the blanks of this alphabet
TrimSpace(s) == TrimChar(s, " ")

\* Go's string order (bytewise lexicographic), as sort.Strings uses it.
RECURSIVE StrLess(_, _)
StrLess(a, b) ==
    IF a = <<>> THEN b # <<>>
    ELSE IF b = <<>> THEN FALSE
    ELSE IF CharCode(Head(a)) # CharCode(Head(b))
         THEN CharCode(Head(a)) < CharCode(Head(b))
         ELSE StrLess(Tail(a), Tail(b))

\* sort.Strings over the keys of a map: the keys in ascending order.
RECURSIVE SortStrings(_)
SortStrings(S) ==
    IF S = {} THEN <<>>
    ELSE LET m == CHOOSE x \in S : \A y \in S \ {x} : StrLess(x, y)
         IN <<m>> \o SortStrings(S \ {m})

\* strings.Index(s, "c") for a one-character needle; 0 when absent (1-based).
RECURSIVE IndexChar(_, _)
IndexChar(s, c) ==
    IF s = <<>> THEN 0
    ELSE IF Head(s) = c THEN 1
    ELSE LET r == IndexChar(Tail(s), c) IN IF r = 0 THEN 0 ELSE r + 1

Contains(s, c) == IndexChar(s, c) # 0

-----------------------------------------------------------------------------
(* pkg/core/routepath: Compile and Match                                   *)

\* Compile: the pattern as a sequence of tokens, a literal character or a
\* capture group ([^/]+) for each {name}.  "error" for a pattern Compile
\* rejects (no leading '/', a '{' without '}', an empty name).
RECURSIVE CompileFrom(_)
CompileFrom(pattern) ==
    IF pattern = <<>> THEN <<>>
    ELSE IF Head(pattern) = "{"
    THEN LET end == IndexChar(pattern, "}")
         IN IF end = 0 \/ end = 2 THEN <<[kind |-> "error"]>>
            ELSE <<[kind |-> "group", name |-> SubSeq(pattern, 2, end - 1)]>>
                 \o CompileFrom(Drop(pattern, end))
    ELSE <<[kind |-> "lit", ch |-> Head(pattern)]>> \o CompileFrom(Tail(pattern))

Compile(pattern) ==
    IF ~HasPrefix(pattern, <<"/">>) THEN "error"
    ELSE LET toks == CompileFrom(pattern)
         IN IF \E i \in 1..Len(toks) : toks[i].kind = "error" THEN "error" ELSE toks

\* The regular expression ^...$ built by Compile, run on path: a literal
\* matches itself, a group matches one or more characters other than '/'.
RECURSIVE MatchTokens(_, _)
MatchTokens(toks, path) ==
    IF toks = <<>> THEN path = <<>>
    ELSE IF Head(toks).kind = "lit"
    THEN path # <<>> /\ Head(path) = Head(toks).ch /\ MatchTokens(Tail(toks), Tail(path))
    ELSE \E k \in 1..Len(path) :
            /\ \A i \in 1..k : path[i] # "/"
            /\ MatchTokens(Tail(toks), Drop(path, k))

\* Matcher.Match(path): whether the compiled pattern matches the whole path.
Match(matcher, path) == matcher # "error" /\ MatchTokens(matcher, path)

-----------------------------------------------------------------------------
(* pkg/codegen/generator.go: pages, page names and the dispatch tables     *)

\* strings.ReplaceAll(path, "${", "{")
RECURSIVE normalizePathPattern(_)
normalizePathPattern(path) ==
    IF path = <<>> THEN <<>>
    ELSE IF HasPrefix(path, <<"$", "{">>)
    THEN <<"{">> \o normalizePathPattern(Drop(path, 2))
    ELSE <<Head(path)>> \o normalizePathPattern(Tail(path))

pathHasParams(path) ==
    Contains(normalizePathPattern(path), "{") /\ Contains(normalizePathPattern(path), "}")

ErrorPath == <<"/", "e", "r", "r", "o", "r">>

\* preparePages: Page.Parameters split by location; everything that is not
\* "path" counts as a query parameter.
PathParams(page) == {q \in page.params : q.loc = "path"}
QueryParams(page) == {q \in page.params : q.loc # "path"}

\* preparePages: the pages in sorted path order, the /error page left out.
\* Each entry keeps the page with its normalized path.
RECURSIVE pagesInOrder(_, _)
pagesInOrder(paths, doc) ==
    IF paths = <<>> THEN <<>>
    ELSE LET page == CHOOSE p \in doc : p.path = Head(paths)
             normalized == normalizePathPattern(Head(paths))
         IN IF normalized = ErrorPath
            THEN pagesInOrder(Tail(paths), doc)
            ELSE <<[page EXCEPT !.path = normalized]>> \o pagesInOrder(Tail(paths), doc)

\* The pages in sorted path order with the /error page kept among them.
RECURSIVE allPagesInOrder(_, _)
allPagesInOrder(paths, doc) ==
    IF paths = <<>> THEN <<>>
    ELSE LET page == CHOOSE p \in doc : p.path = Head(paths)
         IN <<[page EXCEPT !.path = normalizePathPattern(Head(paths))]>>
                \o allPagesInOrder(Tail(paths), doc)

preparePagesAll(doc) == allPagesInOrder(SortStrings({p.path : p \in doc}), doc)

preparePages(doc) == pagesInOrder(SortStrings({p.path : p \in doc}), doc)

\* sort.SliceStable(matcherPages, len(Path) descending): stable insertion.
RECURSIVE InsertByLen(_, _)
InsertByLen(sorted, page) ==
    IF sorted = <<>> THEN <<page>>
    ELSE IF Len(Head(sorted).path) >= Len(page.path)
    THEN <<Head(sorted)>> \o InsertByLen(Tail(sorted), page)
    ELSE <<page>> \o sorted

RECURSIVE SortByLenDesc(_)
SortByLenDesc(s) ==
    IF s = <<>> THEN <<>>
    ELSE InsertByLen(SortByLenDesc(SubSeq(s, 1, Len(s) - 1)), s[Len(s)])

\* Whether a page goes to the static cases (url.Path == path) of a table.
IsStaticForDispatch(page) == PathParams(page) = {}

IsMatcherForDispatch(page) == ~IsStaticForDispatch(page)

\* splitPagesForDispatch: <<staticPages, matcherPages>>
splitPagesForDispatch(pages) ==
    <<SelectSeq(pages, IsStaticForDispatch),
      SortByLenDesc(SelectSeq(pages, IsMatcherForDispatch))>>

CaseOf(kind, page) == [kind |-> kind, path |-> page.path]

RECURSIVE CasesOf(_, _)
CasesOf(kind, pages) ==
    IF pages = <<>> THEN <<>>
    ELSE <<CaseOf(kind, Head(pages))>> \o CasesOf(kind, Tail(pages))

\* renderPagesDispatch: the cases of the generated switch, static cases
\* first, then the matcher cases, in the order they are written.
DispatchCases(pages) ==
    LET split == splitPagesForDispatch(pages)
    IN CasesOf("static", split[1]) \o CasesOf("matcher", split[2])

HasForm(page) == page.form

renderRouteTable(doc) == DispatchCases(preparePages(doc))

renderSubmitTable(doc) == DispatchCases(SelectSeq(preparePages(doc), HasForm))

NotFound == <<"n", "o", "t", " ", "f", "o", "u", "n", "d">>

\* The generated `switch { case ...: }`: the first case that holds is taken;
\* a static case compares url.Path with the page path, a matcher case tests
\* the ok result of <page>Matcher.Match(url.Path); default is ErrNotFound.
RECURSIVE RunSwitch(_, _)
RunSwitch(cases, urlPath) ==
    IF cases = <<>> THEN [kind |-> "default", path |-> NotFound]
    ELSE LET c == Head(cases)
             holds == IF c.kind = "static" THEN urlPath = c.path
                      ELSE Match(Compile(c.path), urlPath)
         IN IF holds THEN c ELSE RunSwitch(Tail(cases), urlPath)

-----------------------------------------------------------------------------
(* Run-time values: session keys, forms, the empty conversation            *)

SessionKeyRouter == "__router"
SessionKeyRouterHist == "__router_history"
SessionKeyLanguage == "__language"
CliSessionKeyInputState == "__cli_input_state"
CallbackPrefixRoute == "_route"
CallbackPrefixSubmit == "_submit"

\* bot.Form with no fields: the value of the input-state slot while the key
\* is absent from the session.
NoForm == [url |-> "", idx |-> 0, fields |-> <<>>]

\* MemorySessionManager.Get on a chat seen for the first time: no key is set.
NewSession == [has |-> {}, hist |-> <<>>, lang |-> <<>>, form |-> NoForm]

\* What an update found and did: the text, whether the form took it, the
\* form and the router history stored before it, the texts the form in
\* progress has taken so far.
NoUpdate == [kind |-> "none", text |-> "", accepted |-> FALSE,
             before |-> NoForm, histBefore |-> <<>>, entered |-> <<>>]

ConvIdle ==
    /\ session = NewSession
    /\ pc = "idle"
    /\ sent = <<>>
    /\ submits = <<>>
    /\ obs = NoUpdate
    /\ histSeen = <<>>

\* Before generation there is no validator table and no Validate call.
NotPrepared == <<[Name |-> <<>>, MethodName |-> <<>>]>>

NoValidate == [name |-> <<>>, method |-> <<>>]

ValIdle ==
    /\ formDoc = {}
    /\ validators = NotPrepared
    /\ validated = NoValidate

NoFormDecl == [fields |-> {}, required |-> {}]

NotRendered == <<[name |-> <<>>, required |-> FALSE]>>

NoUnmarshal == [called |-> FALSE, values |-> <<>>, err |-> "", missing |-> <<>>, form |-> <<>>]

FormIdle ==
    /\ formDecl = NoFormDecl
    /\ formFields = NotRendered
    /\ unmarshalled = NoUnmarshal

NoPageArgs == [columns |-> 0, rows |-> 0, total |-> 0, page |-> 0, items |-> <<>>]

NotCalled == <<<<[kind |-> "none", arg |-> 0]>>>>

PagIdle ==
    /\ pageArgs = NoPageArgs
    /\ grid = NotCalled

NoI18n == [default |-> <<>>, entries |-> <<>>]

NotLocalized == [i18nDefault |-> <<>>, i18nEntries |-> <<>>]

NoLookup == [called |-> FALSE, key |-> "", msgLang |-> <<>>, hasPref |-> FALSE,
             pref |-> <<>>, text |-> ""]

I18nIdle ==
    /\ i18nDoc = NoI18n
    /\ i18nGen = NotLocalized
    /\ looked = NoLookup

NoExprIn == [pieces |-> <<>>, params |-> {}]

NotRewritten == [called |-> FALSE, go |-> [format |-> <<>>, args |-> <<>>, code |-> <<>>]]

ExprIdle ==
    /\ exprIn = NoExprIn
    /\ exprOut = NotRewritten

\* No YAML tree: nothing was read, nothing was normalized.
NoTree == [kind |-> "none"]

NormIdle ==
    /\ rawDoc = NoTree
    /\ normDoc = NoTree

PipeIdle == outputs = <<>>

NoSchema == [properties |-> {}, required |-> <<>>]

NoFields == <<<<>>>>

CompIdle ==
    /\ compSchema = NoSchema
    /\ compFields = NoFields

MgrIdle ==
    /\ mgrSessions = <<>>
    /\ sessData = <<>>
    /\ callers = <<>>
    /\ written = <<>>

NoParamCall == [params |-> <<>>, raw |-> <<>>]

NotParsed == [called |-> FALSE, err |-> "", nil |-> TRUE, values |-> <<>>]

ParamIdle ==
    /\ paramCall = NoParamCall
    /\ parsed = NotParsed

NotEmitted == [called |-> FALSE, routes |-> <<>>, submits |-> <<>>, providers |-> <<>>, parsers |-> <<>>]

ErrIdle ==
    /\ errorDoc = {}
    /\ generated = NotEmitted
    /\ errorRouted = [kind |-> "none", req |-> <<>>, result |-> [kind |-> "none", path |-> <<>>]]

NoButtonsNode == [grid |-> [kind |-> "absent"], pagination |-> [kind |-> "absent"],
                  grids |-> [kind |-> "absent"], navbar |-> FALSE]

NotRenderedButtons == [called |-> FALSE, err |-> "", grids |-> <<>>]

BtnIdle ==
    /\ buttonsNode = NoButtonsNode
    /\ buttonsOut = NotRenderedButtons

NilDoc == [nil |-> TRUE, pages |-> {}, components |-> {}]

NoRun == [called |-> FALSE, entry |-> "", err |-> "", output |-> <<>>]

GenIdle ==
    /\ genDoc = NilDoc
    /\ genOut = NoRun

NoHelpers == [called |-> FALSE, helpers |-> <<>>, calls |-> <<>>]

NotShown == [called |-> FALSE, path |-> <<>>, controls |-> <<>>]

HlpIdle ==
    /\ helperDoc = {}
    /\ helperGen = NoHelpers
    /\ shown = NotShown

NoHandlersDoc == [handlers |-> <<>>, registered |-> FALSE]

NoTextCall == [called |-> FALSE, data |-> <<>>, calls |-> <<>>, err |-> ""]

TxtIdle ==
    /\ handlersDoc = NoHandlersDoc
    /\ textCalls = NoTextCall

\* No Router call has been made.
NoRouterOp == [kind |-> "none", url |-> "", returned |-> "", before |-> <<>>]

RtrIdle ==
    /\ routerSess = NewSession
    /\ routerOp = NoRouterOp

\* preparePages has not run.
NoPageNames == [called |-> FALSE, pages |-> <<>>]

NamIdle ==
    /\ namedDoc = {}
    /\ pageNames = NoPageNames

\* Every subsystem but the one a specification is about stays idle.
DispIdle ==
    /\ docPages = {}
    /\ routeTable = <<[kind |-> "none", path |-> <<>>]>>
    /\ submitTable = <<[kind |-> "none", path |-> <<>>]>>
    /\ dispatched = [kind |-> "none", req |-> <<>>, result |-> [kind |-> "none", path |-> <<>>]]

-----------------------------------------------------------------------------
(* Documents and requests of the dispatch specification                    *)

MaxPages == 4

PRoot == <<"/">>
PXNew == <<"/", "x", "/", "n", "e", "w">>
PXId == <<"/", "x", "/", "{", "i", "d", "}">>
PXIdEdit == <<"/", "x", "/", "{", "i", "d", "}", "/", "e", "d", "i", "t">>
PA7 == <<"/", "{", "a", "}", "/", "7">>

StaticPaths == {PRoot, PXNew, ErrorPath}
ParamPaths == {PXId, PXIdEdit, PA7}
FormPaths == {PXNew, PXIdEdit}

ParamNameOf(path) == IF path = PA7 THEN <<"a">> ELSE <<"i", "d">>

\* The parameters sections a page may carry: none, its path segment declared
\* `in: path`, or declared without a location (which defaults to query).
ParamVariants(path) ==
    IF path \in StaticPaths THEN {{}}
    ELSE {{}, {[name |-> ParamNameOf(path), loc |-> "path"]},
              {[name |-> ParamNameOf(path), loc |-> "query"]}}

PageUniverse ==
    {[path |-> pth, params |-> ps, form |-> f] :
        pth \in StaticPaths \cup ParamPaths, ps \in UNION {ParamVariants(q) : q \in StaticPaths \cup ParamPaths},
        f \in BOOLEAN}

WellFormedPage(p) ==
    /\ p.params \in ParamVariants(p.path)
    /\ p.form => p.path \in FormPaths

\* Doc.Pages is a map keyed by path: no two pages share a path.
Docs ==
    {d \in SUBSET {p \in PageUniverse : WellFormedPage(p)} :
        /\ d # {}
        /\ Cardinality(d) <= MaxPages
        /\ \A p, q \in d : p.path = q.path => p = q}

Requests ==
    {PRoot, PXNew, ErrorPath, PXId,
     <<"/", "x", "/", "7">>,
     <<"/", "x", "/", "7", "/", "e", "d", "i", "t">>,
     <<"/", "x", "/", "7", "/", "7">>}

NotGenerated == <<[kind |-> "none", path |-> <<>>]>>

NoDispatch == [kind |-> "none", req |-> <<>>, result |-> [kind |-> "none", path |-> <<>>]]

DispatchInit ==
    /\ docPages \in Docs
    /\ routeTable = NotGenerated
    /\ submitTable = NotGenerated
    /\ dispatched = NoDispatch
    /\ ConvIdle
    /\ ValIdle
    /\ FormIdle
    /\ PagIdle
    /\ I18nIdle
    /\ ExprIdle
    /\ NormIdle
    /\ PipeIdle
    /\ CompIdle
    /\ MgrIdle
    /\ ParamIdle
    /\ ErrIdle
    /\ BtnIdle
    /\ GenIdle
    /\ HlpIdle
    /\ TxtIdle
    /\ RtrIdle
    /\ NamIdle

\* Generator.Generate: prepare, then renderPagesDispatch writes both switches.
Generate ==
    /\ routeTable = NotGenerated
    /\ routeTable' = renderRouteTable(docPages)
    /\ submitTable' = renderSubmitTable(docPages)
    /\ UNCHANGED <<docPages, dispatched>>
    /\ UNCHANGED notDispVars

\* The generated onRoute(ctx, chatID, url).
OnRoute(req) ==
    /\ routeTable # NotGenerated
    /\ dispatched' = [kind |-> "route", req |-> req, result |-> RunSwitch(routeTable, req)]
    /\ UNCHANGED <<docPages, routeTable, submitTable>>
    /\ UNCHANGED notDispVars

\* The generated onSubmit(ctx, chatID, url): a URL without "values" is a
\* bad request before any case is tried.
OnSubmit(req, hasValues) ==
    /\ routeTable # NotGenerated
    /\ dispatched' =
          [kind |-> "submit", req |-> req,
           result |-> IF hasValues THEN RunSwitch(submitTable, req)
                      ELSE [kind |-> "badrequest", path |-> <<>>]]
    /\ UNCHANGED <<docPages, routeTable, submitTable>>
    /\ UNCHANGED notDispVars

RouteStep == \E req \in Requests : OnRoute(req)

SubmitStep == \E req \in Requests, hasValues \in BOOLEAN : OnSubmit(req, hasValues)

DispatchNext == Generate \/ RouteStep \/ SubmitStep

SpecDispatch == DispatchInit /\ [][DispatchNext]_vars

\* The pages normal dispatch covers: every declared page but /error.
NormalPages == {p \in docPages : normalizePathPattern(p.path) # ErrorPath}

\* C1: for every request path, onRoute selects the static page whose path
\* equals the request path if there is one; otherwise, among the
\* parameterized patterns that match the path, the one with the longest raw
\* path string (so /x/7/edit goes to /x/{id}/edit, never to /x/{id}).
C1_RouteStaticThenLongestPattern ==
    dispatched.kind = "route" =>
        LET req == dispatched.req
            statics == {p \in NormalPages : ~pathHasParams(p.path) /\ p.path = req}
            matching == {p \in NormalPages :
                            pathHasParams(p.path) /\ Match(Compile(p.path), req)}
        IN IF statics # {} THEN dispatched.result.path = req
           ELSE matching # {} =>
                  /\ dispatched.result.path \in {p.path : p \in matching}
                  /\ \A q \in matching : Len(q.path) <= Len(dispatched.result.path)

\* C4: every page whose path contains a {name} segment is a matcher case of
\* the route table and (with a form) of the submit table, and no such page is
\* ever selected by literal equality of the request path with its pattern.
C4_ParamPathsUseMatcher ==
    /\ routeTable # NotGenerated =>
          \A p \in NormalPages : pathHasParams(p.path) =>
              /\ \E i \in 1..Len(routeTable) : routeTable[i] = CaseOf("matcher", p)
              /\ p.form => \E i \in 1..Len(submitTable) : submitTable[i] = CaseOf("matcher", p)
    /\ dispatched.result.kind = "static" => ~pathHasParams(dispatched.result.path)

-----------------------------------------------------------------------------
(* The conversation: CLIBot.HandleUpdate driving the generated BotxHandler  *)

MaxFields == 2
MaxSent == 3
MaxHist == 4

\* The texts of the updates: a plain one and one that spells the command a
\* handler of the document is registered for.
StartCommand == "/start"
Texts == {"t1", StartCommand}
RootURL == "/"
PlainURLs == {"/", "/a"}
FormURL == "/f"
RouteURLs == PlainURLs \cup {FormURL}

\* A field's Validator is a *string: "" stands for the nil pointer.
Validators == {"", "v"}

\* renderFormView lists the fields in sorted name order, so IDs are distinct.
FieldIDs == <<"f1", "f2", "f3", "f4">>

FieldDefs ==
    {[id |-> FieldIDs[k], hasInput |-> h, validator |-> v, value |-> ""] :
        k \in 1..MaxFields, h \in BOOLEAN, v \in Validators}

FieldLists ==
    UNION {{f \in [1..n -> FieldDefs] : \A k \in 1..n : f[k].id = FieldIDs[k]} :
              n \in 1..MaxFields}

\* The bot.Form values the generated form<Page> renderers build (Idx: 0).
Forms == {[url |-> FormURL, idx |-> 0, fields |-> f] : f \in FieldLists}

Msg(kind, arg) == [kind |-> kind, arg |-> arg]

\* BotxHandler.HandleError: the default handler, then the error page.
HandleError == <<Msg("error", "")>>

\* bot.Router over the session
CreateRouter(s) ==
    [s EXCEPT !.has = @ \cup {SessionKeyRouterHist}, !.hist = <<RootURL>>]

getRouter(s) == IF SessionKeyRouter \in s.has THEN s ELSE CreateRouter(s)

History(s) == s.hist

\* A Push without the comparison against the top of the history.
PushAlways(s, url) == [s EXCEPT !.hist = Append(@, url)]

Push(s, url) ==
    IF url = s.hist[Len(s.hist)] THEN s ELSE [s EXCEPT !.hist = Append(@, url)]

Back(s) ==
    IF Len(s.hist) > 1
    THEN [session |-> [s EXCEPT !.hist = SubSeq(@, 1, Len(@) - 1)],
          url |-> s.hist[Len(s.hist)]]
    ELSE [session |-> s, url |-> RootURL]

\* CLIBot.sendFormField: a field without Input is an error, otherwise its
\* tip is sent as the prompt.
sendFormField(field) ==
    IF field.hasInput THEN [err |-> FALSE, msgs |-> <<Msg("prompt", field.id)>>]
    ELSE [err |-> TRUE, msgs |-> <<>>]

\* CLIBot.SendForm: prompt the first field, then store the form.
SendForm(s, form) ==
    LET p == sendFormField(form.fields[1])
    IN IF p.err
       THEN [session |-> s, msgs |-> <<>>, err |-> TRUE, stored |-> FALSE]
       ELSE [session |-> [s EXCEPT !.has = @ \cup {CliSessionKeyInputState},
                                   !.form = form],
             msgs |-> p.msgs, err |-> FALSE, stored |-> TRUE]

\* The generated onRoute for the pages of this conversation: a plain page is
\* rendered, the form page sends its form.
onRoute(s, url, form) ==
    IF url \in PlainURLs
    THEN [session |-> s, msgs |-> <<Msg("page", url)>>, err |-> FALSE, stored |-> FALSE]
    ELSE SendForm(s, form)

\* marshalFormValues with the first field's value under every ID.
marshalFirstValue(form) ==
    LET withInput == {k \in 1..Len(form.fields) : form.fields[k].hasInput}
    IN [id \in {form.fields[k].id : k \in withInput} |-> form.fields[1].value]

\* marshalFormValues: the map from field ID to Input.Value over the fields
\* that have an Input (a later field overwrites an earlier one of its ID).
marshalFormValues(form) ==
    LET withInput == {k \in 1..Len(form.fields) : form.fields[k].hasInput}
        last(id) == CHOOSE k \in withInput :
                        /\ form.fields[k].id = id
                        /\ \A j \in withInput : form.fields[j].id = id => j <= k
    IN [id \in {form.fields[k].id : k \in withInput} |-> form.fields[last(id)].value]

\* json.Marshal of a FormValues map: a JSON object, i.e. its key/value pairs.
jsonMarshal(m) == {<<k, m[k]>> : k \in DOMAIN m}

\* json.Unmarshal of an object into a map[string]string.
jsonUnmarshal(pairs) ==
    [k \in {q[1] : q \in pairs} |-> (CHOOSE q \in pairs : q[1] = k)[2]]

\* bot.SubmitForm(form.URL.String()) after query.Add("values", raw).
SubmitForm(url, raw) == <<CallbackPrefixSubmit, [path |-> url, values |-> raw]>>

\* A handleInProgressForm that stores the form after every accepted input,
\* the last one included, and never deletes it.
handleInProgressFormKept(s, text, valid) ==
    LET form == s.form
        i == form.idx + 1
        field == form.fields[i]
        stored == IF field.hasInput THEN [field EXCEPT !.value = text] ELSE field
        form2 == [form EXCEPT !.fields[i] = stored, !.idx = form.idx + 1]
    IN IF field.validator # "" /\ ~valid
       THEN [session |-> s, msgs |-> <<>>, submits |-> <<>>, result |-> "invalid"]
       ELSE [session |-> [s EXCEPT !.form = form2],
             msgs |-> <<>>,
             submits |-> IF form2.idx = Len(form2.fields)
                         THEN <<SubmitForm(form2.url, jsonMarshal(marshalFormValues(form2)))>>
                         ELSE <<>>,
             result |-> "valid"]

\* CLIBot.handleInProgressForm; valid is what the user's validator answers.
handleInProgressForm(s, text, valid) ==
    LET form == s.form
        i == form.idx + 1
        field == form.fields[i]
        stored == IF field.hasInput THEN [field EXCEPT !.value = text] ELSE field
        form2 == [form EXCEPT !.fields[i] = stored, !.idx = form.idx + 1]
    IN IF field.validator # "" /\ ~valid
       THEN [session |-> s, msgs |-> <<>>, submits |-> <<>>, result |-> "invalid"]
       ELSE IF form2.idx = Len(form2.fields)
       THEN [session |-> [s EXCEPT !.has = @ \ {CliSessionKeyInputState},
                                   !.form = NoForm],
             msgs |-> <<Msg("submitted", form2.url)>>,
             submits |-> <<SubmitForm(form2.url, jsonMarshal(marshalFormValues(form2)))>>,
             result |-> "valid"]
       ELSE LET p == sendFormField(form2.fields[form2.idx + 1])
            IN [session |-> [s EXCEPT !.form = form2],
                msgs |-> p.msgs, submits |-> <<>>,
                result |-> IF p.err THEN "error" ELSE "valid"]

ConvInit ==
    /\ ConvIdle
    /\ DispIdle
    /\ ValIdle
    /\ FormIdle
    /\ PagIdle
    /\ I18nIdle
    /\ ExprIdle
    /\ NormIdle
    /\ PipeIdle
    /\ CompIdle
    /\ MgrIdle
    /\ ParamIdle
    /\ ErrIdle
    /\ BtnIdle
    /\ GenIdle
    /\ HlpIdle
    /\ TxtIdle
    /\ RtrIdle
    /\ NamIdle

\* One pass of the for loop of CLIBot.handleUpdate over the stored form.
FormInput(text, valid, sentBefore) ==
    LET r == handleInProgressForm(session, text, valid)
    IN /\ session' = r.session
       /\ submits' = r.submits
       /\ sent' = CASE r.result = "invalid" -> Append(sentBefore, Msg("invalid", text))
                    [] r.result = "error" -> sentBefore \o r.msgs \o HandleError
                    [] OTHER -> sentBefore \o r.msgs
       /\ pc' = IF r.result = "invalid" THEN "loop" ELSE "idle"
       /\ obs' = [kind |-> "form", text |-> text,
                  accepted |-> r.result # "invalid",
                  before |-> session.form,
                  entered |-> IF r.result # "invalid" THEN Append(obs.entered, text)
                              ELSE obs.entered]
       /\ UNCHANGED histSeen

\* A HandleUpdate that hands a command to BotxHandler.HandleTextMessage
\* before it looks for a form in progress.
TextUpdateCommandFirst(text) ==
    /\ pc = "idle"
    /\ IF CliSessionKeyInputState \in session.has /\ text # StartCommand
       THEN \E valid \in BOOLEAN : FormInput(text, valid, <<>>)
       ELSE /\ sent' = <<Msg("text", text)>>
            /\ submits' = <<>>
            /\ obs' = [NoUpdate EXCEPT !.kind = "text", !.text = text,
                                       !.entered = obs.entered]
            /\ UNCHANGED <<session, pc, histSeen>>
    /\ UNCHANGED notConvVars

\* HandleUpdate with a text: the form in progress takes it, otherwise
\* BotxHandler.HandleTextMessage does.
TextUpdate(text) ==
    /\ pc = "idle"
    /\ IF CliSessionKeyInputState \in session.has
       THEN \E valid \in BOOLEAN : FormInput(text, valid, <<>>)
       ELSE /\ sent' = <<Msg("text", text)>>
            /\ submits' = <<>>
            /\ obs' = [NoUpdate EXCEPT !.kind = "text", !.text = text,
                                       !.entered = obs.entered]
            /\ UNCHANGED <<session, pc, histSeen>>
    /\ UNCHANGED notConvVars

\* The next pass of the for loop after a rejected input: the same text is
\* validated again.
LoopStep ==
    /\ pc = "loop"
    /\ \E valid \in BOOLEAN :
          /\ valid \/ Len(sent) < MaxSent
          /\ FormInput(obs.text, valid, sent)
    /\ UNCHANGED notConvVars

\* HandleUpdate with callback data "_route:<url>": BotxHandler.handleRoute.
RouteCallback(url, form) ==
    /\ pc = "idle"
    /\ LET s1 == getRouter(session)
           nav == IF url = "back" THEN Back(s1)
                  ELSE [session |-> Push(s1, url), url |-> url]
           r == onRoute(nav.session, nav.url, form)
       IN /\ Len(nav.session.hist) <= MaxHist
          /\ session' = r.session
          /\ sent' = IF r.err THEN HandleError ELSE r.msgs
          /\ submits' = <<>>
          /\ obs' = [NoUpdate EXCEPT !.kind = "route", !.text = url,
                        !.histBefore = session.hist,
                        !.entered = IF r.stored THEN <<>> ELSE obs.entered]
          /\ histSeen' = History(s1)
    /\ UNCHANGED pc
    /\ UNCHANGED notConvVars

\* HandleUpdate with callback data "lang:<code>": BotxHandler.handleLanguage
\* stores the language and renders the current page again.
LangCallback(data, form) ==
    /\ pc = "idle"
    /\ LET lang == ToLower(TrimSpace(data))
           s0 == [session EXCEPT !.has = @ \cup {SessionKeyLanguage}, !.lang = lang]
           s1 == getRouter(s0)
           hist == History(s1)
           current == IF Len(hist) # 0 THEN hist[Len(hist)] ELSE RootURL
           r == onRoute(s1, current, form)
       IN IF lang = <<>>
          THEN /\ sent' = HandleError
               /\ obs' = [NoUpdate EXCEPT !.kind = "badlang", !.entered = obs.entered]
               /\ UNCHANGED <<session, histSeen>>
          ELSE /\ session' = r.session
               /\ sent' = IF r.err THEN HandleError ELSE r.msgs
               /\ obs' = [NoUpdate EXCEPT !.kind = "lang",
                             !.histBefore = session.hist,
                             !.entered = IF r.stored THEN <<>> ELSE obs.entered]
               /\ histSeen' = hist
    /\ submits' = <<>>
    /\ UNCHANGED pc
    /\ UNCHANGED notConvVars

\* HandleUpdate with neither text nor callback data: ErrEmptyMessage goes to
\* HandleError.
EmptyUpdate ==
    /\ pc = "idle"
    /\ sent' = HandleError
    /\ submits' = <<>>
    /\ obs' = [NoUpdate EXCEPT !.kind = "empty", !.entered = obs.entered]
    /\ UNCHANGED <<session, pc, histSeen>>
    /\ UNCHANGED notConvVars

TextStep == \E text \in Texts : TextUpdate(text)

\* The forms the page at url can send: only the form page has one.
FormsFor(url) == IF url = FormURL THEN Forms ELSE {NoForm}

\* The page a route callback ends on, and the page a language switch
\* renders again.
RouteTarget(url) == IF url = "back" THEN Back(getRouter(session)).url ELSE url

CurrentPage == LET hist == History(getRouter(session)) IN hist[Len(hist)]

RouteStepConv ==
    \E url \in RouteURLs \cup {"back"} :
        \E form \in FormsFor(RouteTarget(url)) : RouteCallback(url, form)

\* The codes a "lang:" callback may carry, as the button or the user wrote
\* them.
LangCodes == {<<" ">>, <<" ", "Z", "H">>, <<"f", "r">>}

LangStep ==
    \E lang \in LangCodes :
        \E form \in FormsFor(CurrentPage) : LangCallback(lang, form)

ConvNext == TextStep \/ LoopStep \/ RouteStepConv \/ LangStep \/ EmptyUpdate

SpecConv == ConvInit /\ [][ConvNext]_vars

\* C2: within one conversation the navigation history persists across
\* callbacks: it is created as <<"/">> only when the conversation has none,
\* and every later callback that obtains the router reads the history the
\* previous callbacks left (after routes to u1 and u2: "/", u1, u2), never a
\* reset one.
C2_HistoryPersists ==
    obs.kind \in {"route", "lang"} =>
        IF obs.histBefore = <<>> THEN histSeen = <<RootURL>>
        ELSE histSeen = obs.histBefore

-----------------------------------------------------------------------------
(* Names: strings.TrimSpace, strings.Split, toCamel, pageNameFromPath       *)

\* strings.Split(s, c): the pieces between the separators, empty ones kept.
RECURSIVE Split(_, _)
Split(s, c) ==
    LET i == IndexChar(s, c)
    IN IF i = 0 THEN <<s>> ELSE <<Take(s, i - 1)>> \o Split(Drop(s, i), c)

IsLetterOrDigit(c) == c \in LowerLetters \cup UpperLetters \cup Digits

\* strings.FieldsFunc(value, not letter or digit): the maximal runs of
\* letters and digits.
RECURSIVE AlnumRuns(_, _)
AlnumRuns(s, run) ==
    IF s = <<>> THEN (IF run = <<>> THEN <<>> ELSE <<run>>)
    ELSE IF IsLetterOrDigit(Head(s)) THEN AlnumRuns(Tail(s), Append(run, Head(s)))
    ELSE (IF run = <<>> THEN <<>> ELSE <<run>>) \o AlnumRuns(Tail(s), <<>>)

isAllUpper(value) ==
    /\ value # <<>>
    /\ \A k \in 1..Len(value) : value[k] \notin LowerLetters

RECURSIVE Join(_)
Join(parts) == IF parts = <<>> THEN <<>> ELSE Head(parts) \o Join(Tail(parts))

camelPart(part) ==
    IF isAllUpper(part) THEN part ELSE <<ToUpperChar(Head(part))>> \o Tail(part)

toCamel(value) ==
    LET parts == AlnumRuns(value, <<>>)
    IN Join([k \in 1..Len(parts) |-> camelPart(parts[k])])

TrimPrefix(s, prefix) == IF HasPrefix(s, prefix) THEN Drop(s, Len(prefix)) ELSE s

TrimSuffix(s, suffix) ==
    IF HasSuffix(s, suffix) THEN Take(s, Len(s) - Len(suffix)) ELSE s

isPathParam(segment) == HasPrefix(segment, <<"{">>) /\ HasSuffix(segment, <<"}">>)

\* pageNameFromPath: the segments in camel case, a parameter segment only
\* when it is the last one.
RECURSIVE nameParts(_, _)
nameParts(parts, i) ==
    IF i > Len(parts) THEN <<>>
    ELSE LET part == parts[i]
             rest == nameParts(parts, i + 1)
         IN IF part = <<>> THEN rest
            ELSE IF isPathParam(part)
            THEN IF i # Len(parts) THEN rest
                 ELSE <<toCamel(TrimSuffix(TrimPrefix(part, <<"{">>), <<"}">>))>> \o rest
            ELSE <<toCamel(part)>> \o rest

RootName == <<"R", "o", "o", "t">>

pageNameFromPath(rawPath) ==
    LET path == normalizePathPattern(rawPath)
        names == nameParts(Split(TrimChar(path, "/"), "/"), 1)
    IN IF path = <<>> \/ path = <<"/">> \/ names = <<>> THEN RootName
       ELSE Join(names)

validatorMethodName(pageName) ==
    <<"V", "a", "l", "i", "d", "a", "t", "e", "F", "o", "r", "m">> \o pageName

-----------------------------------------------------------------------------
(* The validator table: prepareValidators, the FormValidator interface and  *)
(* the generated Validate switch                                            *)

MaxFormPages == 2

PA == <<"/", "a">>
PB == <<"/", "b">>
FormPagePaths == {PA, PB, PXId}

\* FormField.Validator is a *StringExpr: nil, or a string as written.
NilValidator == [set |-> FALSE, name |-> <<>>]
StrValidator(name) == [set |-> TRUE, name |-> name]

ValidatorValues ==
    {NilValidator, StrValidator(<<"v">>), StrValidator(<<" ", "v">>), StrValidator(<<"w">>)}

FieldNames == {"f", "g"}

\* Form.Fields: a map from field name to field; a page without a form has none.
FieldMaps == UNION {[names -> ValidatorValues] : names \in SUBSET FieldNames \ {{}}}

PageContents ==
    {[form |-> TRUE, fields |-> fs] : fs \in FieldMaps}
        \cup {[form |-> FALSE, fields |-> <<>>]}

FormDocs ==
    UNION {{{[path |-> pth, params |-> {}, form |-> c[pth].form, fields |-> c[pth].fields] :
                pth \in paths} : c \in [paths -> PageContents]} :
              paths \in {ps \in SUBSET FormPagePaths :
                            ps # {} /\ Cardinality(ps) <= MaxFormPages}}

ValidateNames == {<<"v">>, <<"w">>, <<"x">>}

\* The trimmed, non-empty validator names of a page's form fields.
pageValidatorNames(page) ==
    IF ~page.form THEN {}
    ELSE {TrimSpace(page.fields[f].name) :
             f \in {g \in DOMAIN page.fields : page.fields[g].set}} \ {<<>>}

pageValidatorEntries(page) ==
    {[Name |-> n, MethodName |-> validatorMethodName(pageNameFromPath(page.path))] :
        n \in pageValidatorNames(page)}

\* A page replacing the entries of the names it references.
overwritePageValidators(table, page) ==
    {e \in table : e.Name \notin pageValidatorNames(page)} \cup pageValidatorEntries(page)

\* prepareValidators, one page: a name already in the table is skipped.
addPageValidators(table, page) ==
    table \cup {e \in pageValidatorEntries(page) : e.Name \notin {t.Name : t \in table}}

RECURSIVE collectValidators(_, _)
collectValidators(pages, table) ==
    IF pages = <<>> THEN table
    ELSE collectValidators(Tail(pages), addPageValidators(table, Head(pages)))

\* prepareValidators: the table over g.pages, listed in sorted name order.
prepareValidators(doc) ==
    LET table == collectValidators(preparePages(doc), {})
        keys == SortStrings({e.Name : e \in table})
    IN [k \in 1..Len(keys) |-> CHOOSE e \in table : e.Name = keys[k]]

\* The generated Validate: the first case of the name, else ErrNotFound.
RECURSIVE Validate(_, _)
Validate(table, name) ==
    IF table = <<>> THEN NotFound
    ELSE IF Head(table).Name = name THEN Head(table).MethodName
    ELSE Validate(Tail(table), name)

ValInit ==
    /\ formDoc \in FormDocs
    /\ validators = NotPrepared
    /\ validated = NoValidate
    /\ DispIdle
    /\ ConvIdle
    /\ FormIdle
    /\ PagIdle
    /\ I18nIdle
    /\ ExprIdle
    /\ NormIdle
    /\ PipeIdle
    /\ CompIdle
    /\ MgrIdle
    /\ ParamIdle
    /\ ErrIdle
    /\ BtnIdle
    /\ GenIdle
    /\ HlpIdle
    /\ TxtIdle
    /\ RtrIdle
    /\ NamIdle

PrepareValidators ==
    /\ validators = NotPrepared
    /\ validators' = prepareValidators(formDoc)
    /\ UNCHANGED <<formDoc, validated>>
    /\ UNCHANGED notValVars

ValidateCall(name) ==
    /\ validators # NotPrepared
    /\ validated' = [name |-> name, method |-> Validate(validators, name)]
    /\ UNCHANGED <<formDoc, validators>>
    /\ UNCHANGED notValVars

ValidateStep == \E name \in ValidateNames : ValidateCall(name)

ValNext == PrepareValidators \/ ValidateStep

SpecValidators == ValInit /\ [][ValNext]_vars

Referencing(name) == {p \in formDoc : name \in pageValidatorNames(p)}

FirstInPathOrder(pages) ==
    CHOOSE p \in pages : \A q \in pages : p = q \/ StrLess(p.path, q.path)

ReferencedNames == UNION {pageValidatorNames(p) : p \in formDoc}

EntriesOf(name) == {k \in 1..Len(validators) : validators[k].Name = name}

\* C5: a validator name referenced by two or more pages has exactly one
\* entry in the generated table (one interface method), and that method is
\* named after the first of the referencing pages in sorted path order.
C5_FirstPageNamesValidator ==
    validators # NotPrepared =>
        \A name \in ReferencedNames :
            Cardinality(Referencing(name)) >= 2 =>
                /\ Cardinality(EntriesOf(name)) = 1
                /\ \A k \in EntriesOf(name) :
                      validators[k].MethodName =
                          validatorMethodName(
                              pageNameFromPath(FirstInPathOrder(Referencing(name)).path))

\* Two pages whose names differ share a validator name, and the later page
\* also brings a name of its own.
C5_Witness ==
    /\ validators # NotPrepared
    /\ \E name \in ReferencedNames : Cardinality(Referencing(name)) >= 2
    /\ Len(validators) = 2
    /\ validators[1].MethodName # validators[2].MethodName

\* C6: the table has exactly one method per distinct referenced validator
\* name, the methods of distinct names have distinct names, and Validate maps
\* every referenced name to its own method and any other name to not-found.
C6_OneDistinctMethodPerName ==
    validators # NotPrepared =>
        /\ \A name \in ReferencedNames : Cardinality(EntriesOf(name)) = 1
        /\ \A k \in 1..Len(validators) : validators[k].Name \in ReferencedNames
        /\ \A j, k \in 1..Len(validators) :
              j # k => validators[j].MethodName # validators[k].MethodName
        /\ validated # NoValidate =>
              IF validated.name \in ReferencedNames
              THEN \A k \in 1..Len(validators) :
                      (validators[k].MethodName = validated.method)
                          <=> (validators[k].Name = validated.name)
              ELSE validated.method = NotFound

-----------------------------------------------------------------------------
(* Form unmarshalling: renderForms and the generated unmarshalForm<Page>    *)

FormFieldNames == {<<"a">>, <<"b">>, <<"n">>}
FormTexts == {<<>>, <<"t">>}

\* Form.Fields keys and Form.Required as the document gives them: the
\* required list may name a field the form does not declare.
FormDecls ==
    {[fields |-> fs, required |-> rs] :
        fs \in SUBSET FormFieldNames, rs \in SUBSET FormFieldNames}

\* bot.FormValues as a submit callback may carry them
FormValueMaps == UNION {[names -> FormTexts] : names \in SUBSET FormFieldNames}

\* No declared field is required.
neverRequired(key, required) == FALSE

\* sortedFormFields: a declared field is required when the list names it.
isRequired(key, required) == key \in required

\* sortedFormFields: the declared fields in sorted name order.
sortedFormFields(fields, required) ==
    LET keys == SortStrings(fields)
    IN [k \in 1..Len(keys) |-> [name |-> keys[k], required |-> isRequired(keys[k], required)]]

\* The generated unmarshalForm<Page>(values): the fields are read in order,
\* the first required one without an entry ends with ErrBadRequest
\* "<name> is required"; an optional one without an entry reads as "".
RECURSIVE unmarshalFrom(_, _, _)
unmarshalFrom(fields, values, form) ==
    IF fields = <<>>
    THEN [called |-> TRUE, values |-> values, err |-> "", missing |-> <<>>, form |-> form]
    ELSE LET field == Head(fields)
         IN IF field.required /\ field.name \notin DOMAIN values
            THEN [called |-> TRUE, values |-> values, err |-> "bad request",
                  missing |-> field.name, form |-> <<>>]
            ELSE unmarshalFrom(Tail(fields), values,
                    Append(form, <<field.name,
                                   IF field.name \in DOMAIN values
                                   THEN values[field.name] ELSE <<>> >>))

unmarshalForm(fields, values) == unmarshalFrom(fields, values, <<>>)

FormInit ==
    /\ formDecl \in FormDecls
    /\ formFields = NotRendered
    /\ unmarshalled = NoUnmarshal
    /\ DispIdle
    /\ ConvIdle
    /\ ValIdle
    /\ PagIdle
    /\ I18nIdle
    /\ ExprIdle
    /\ NormIdle
    /\ PipeIdle
    /\ CompIdle
    /\ MgrIdle
    /\ ParamIdle
    /\ ErrIdle
    /\ BtnIdle
    /\ GenIdle
    /\ HlpIdle
    /\ TxtIdle
    /\ RtrIdle
    /\ NamIdle

RenderForms ==
    /\ formFields = NotRendered
    /\ formFields' = sortedFormFields(formDecl.fields, formDecl.required)
    /\ UNCHANGED <<formDecl, unmarshalled>>
    /\ UNCHANGED notFormVars

UnmarshalCall(values) ==
    /\ formFields # NotRendered
    /\ unmarshalled' = unmarshalForm(formFields, values)
    /\ UNCHANGED <<formDecl, formFields>>
    /\ UNCHANGED notFormVars

UnmarshalStep == \E values \in FormValueMaps : UnmarshalCall(values)

FormNext == RenderForms \/ UnmarshalStep

SpecForms == FormInit /\ [][FormNext]_vars

\* The required field names of the form: the declared fields its required
\* list names.
RequiredFields == formDecl.fields \cap formDecl.required

-----------------------------------------------------------------------------
(* The generated pagination helper                                          *)

MaxRows == 5
MaxColumns == 2
MaxTotal == 12
MaxPage == 2
MaxItems == 3

PageArgs ==
    {[columns |-> c, rows |-> r, total |-> t, page |-> pg, items |-> [k \in 1..n |-> k]] :
        c \in -1..MaxColumns, r \in -1..MaxRows, t \in 0..MaxTotal,
        pg \in -1..MaxPage, n \in 0..MaxItems}

Min(a, b) == IF a <= b THEN a ELSE b

\* The page is the last one only when it reaches beyond the total.
isLastPageStrict(page, pageSize, total) == (page + 1) * pageSize > total

\* isLastPage := (page+1)*pageSize >= total
isLastPage(page, pageSize, total) == (page + 1) * pageSize >= total

\* One row of the item loop: items[r*columns + c] while the index is inside.
itemRow(r, columns, items) ==
    LET left == Len(items) - r * columns
        width == IF left <= 0 THEN 0 ELSE Min(columns, left)
    IN [c \in 1..width |-> [kind |-> "item", arg |-> items[r * columns + c]]]

\* The item loop: rows are appended until one comes out empty.
RECURSIVE itemRows(_, _, _, _)
itemRows(r, rows, columns, items) ==
    IF r >= rows \/ itemRow(r, columns, items) = <<>> THEN <<>>
    ELSE <<itemRow(r, columns, items)>> \o itemRows(r + 1, rows, columns, items)

\* The generated pagination[T](columns, rows, total, page, items, ...).
pagination(columns, rows, total, page, items) ==
    IF rows <= 0 \/ columns <= 0 THEN <<>>
    ELSE LET pageSize == rows * columns
             prev == IF page # 0 THEN <<[kind |-> "prev", arg |-> page - 1]>> ELSE <<>>
             next == IF ~isLastPage(page, pageSize, total)
                     THEN <<[kind |-> "next", arg |-> page + 1]>> ELSE <<>>
             ctrlRow == prev \o next
         IN itemRows(0, rows, columns, items)
               \o (IF Len(ctrlRow) # 0 THEN <<ctrlRow>> ELSE <<>>)

PagInit ==
    /\ pageArgs \in PageArgs
    /\ grid = NotCalled
    /\ DispIdle
    /\ ConvIdle
    /\ ValIdle
    /\ FormIdle
    /\ I18nIdle
    /\ ExprIdle
    /\ NormIdle
    /\ PipeIdle
    /\ CompIdle
    /\ MgrIdle
    /\ ParamIdle
    /\ ErrIdle
    /\ BtnIdle
    /\ GenIdle
    /\ HlpIdle
    /\ TxtIdle
    /\ RtrIdle
    /\ NamIdle

Paginate ==
    /\ grid = NotCalled
    /\ grid' = pagination(pageArgs.columns, pageArgs.rows, pageArgs.total,
                          pageArgs.page, pageArgs.items)
    /\ UNCHANGED pageArgs
    /\ UNCHANGED notPagVars

PagNext == Paginate

SpecPagination == PagInit /\ [][PagNext]_vars

HasControl(kind) ==
    \E r \in 1..Len(grid) : \E c \in 1..Len(grid[r]) : grid[r][c].kind = kind

\* C8: with rows > 0 and columns > 0 the grid has a "next" control exactly
\* when (page+1)*rows*columns < total and a "prev" control exactly when
\* page # 0.
C8_PaginationControls ==
    (grid # NotCalled /\ pageArgs.rows > 0 /\ pageArgs.columns > 0) =>
        /\ HasControl("next") <=>
              (pageArgs.page + 1) * pageArgs.rows * pageArgs.columns < pageArgs.total
        /\ HasControl("prev") <=> pageArgs.page # 0

\* rows=5, columns=2, total=11, page=1: the second page is the last, so the
\* grid has a prev control and no next control.
C8_Witness ==
    /\ grid # NotCalled
    /\ pageArgs.rows = 5
    /\ pageArgs.columns = 2
    /\ pageArgs.total = 11
    /\ pageArgs.page = 1
    /\ HasControl("prev")
    /\ ~HasControl("next")

-----------------------------------------------------------------------------
(* Localized texts: renderI18n, the generated i18n lookup and withLanguage   *)

LangEn == <<"e", "n">>
LangZH == <<"Z", "H">>
LangFr == <<"f", "r">>
DocLangs == {LangEn, LangZH, LangFr}

TextOf(lang) ==
    CASE lang = LangEn -> "hello" [] lang = LangZH -> "nihao" [] OTHER -> "salut"

I18nKeys == {"greeting", "missing"}

\* One entry of I18n.Entries: per language written in the document a text,
\* possibly the empty one.
EntryMaps ==
    UNION {{e \in [langs -> {"", "hello", "nihao", "salut"}] :
               \A l \in langs : e[l] \in {"", TextOf(l)}} : langs \in SUBSET DocLangs}

\* I18n.Default as written, and I18n.Entries with or without the key.
I18nDocs ==
    {[default |-> d, entries |-> es] :
        d \in {<<>>, LangEn, <<" ", "Z", "H">>},
        es \in {<<>>} \cup {[k \in {"greeting"} |-> e] : e \in EntryMaps}}

\* update.Message.From.LanguageCode of the incoming update
MessageLangs == {<<>>, <<"E", "N">>, <<"z", "h">>, <<"d", "e">>}

\* firstI18nLanguage: the first language, in sorted order, of all entries.
firstI18nLanguage(doc) ==
    LET langs == {l \in UNION {DOMAIN doc.entries[k] : k \in DOMAIN doc.entries} :
                     TrimSpace(l) # <<>>}
    IN IF langs = {} THEN <<>> ELSE SortStrings(langs)[1]

\* renderI18n: const i18nDefault
i18nDefaultOf(doc) ==
    LET declared == TrimSpace(doc.default)
        first == IF declared = <<>> THEN firstI18nLanguage(doc) ELSE declared
    IN ToLower(IF first = <<>> THEN LangEn ELSE first)

\* renderI18n: var i18nEntries, the languages in lower case
i18nEntriesOf(doc) ==
    [k \in DOMAIN doc.entries |->
        LET entry == doc.entries[k]
        IN [l \in {ToLower(d) : d \in DOMAIN entry} |->
               entry[CHOOSE d \in DOMAIN entry : ToLower(d) = l]]]

renderI18n(doc) == [i18nDefault |-> i18nDefaultOf(doc), i18nEntries |-> i18nEntriesOf(doc)]

\* The generated i18nLookup(key, lang)
i18nLookup(gen, key, lang) ==
    IF key \notin DOMAIN gen.i18nEntries THEN ""
    ELSE IF lang \in DOMAIN gen.i18nEntries[key] THEN gen.i18nEntries[key][lang]
    ELSE ""

\* The generated i18nFallback(key): ranging over the map, the first
\* non-empty value in whatever order the map yields; else the key.
i18nFallback(gen, key) ==
    IF key \notin DOMAIN gen.i18nEntries THEN {key}
    ELSE LET entry == gen.i18nEntries[key]
             values == {entry[l] : l \in DOMAIN entry} \ {""}
         IN IF values = {} THEN {key} ELSE values

\* The generated i18n(ctx, chatID, key): the texts it may return.
i18n(gen, ctxLang, key) ==
    LET lower == ToLower(ctxLang)
        lang == IF lower = <<>> THEN gen.i18nDefault ELSE lower
    IN IF i18nLookup(gen, key, lang) # "" THEN {i18nLookup(gen, key, lang)}
       ELSE IF lang # gen.i18nDefault /\ i18nLookup(gen, key, gen.i18nDefault) # ""
       THEN {i18nLookup(gen, key, gen.i18nDefault)}
       ELSE i18nFallback(gen, key)

\* withLanguage with the message language taking precedence.
withMessageLanguage(s, ctxLang) ==
    LET lang == ToLower(TrimSpace(IF TrimSpace(ctxLang) # <<>> THEN ctxLang ELSE s.lang))
    IN IF lang = <<>> THEN ctxLang ELSE lang

\* BotxHandler.withLanguage: the language of the context handed on, given
\* the session and the language the context came with.
withLanguage(s, ctxLang) ==
    LET stored == IF SessionKeyLanguage \in s.has THEN TrimSpace(s.lang) ELSE <<>>
        lang == ToLower(TrimSpace(IF stored = <<>> THEN ctxLang ELSE stored))
    IN IF lang = <<>> THEN ctxLang ELSE lang

I18nInit ==
    /\ i18nDoc \in I18nDocs
    /\ i18nGen = NotLocalized
    /\ looked = NoLookup
    /\ DispIdle
    /\ ConvIdle
    /\ ValIdle
    /\ FormIdle
    /\ PagIdle
    /\ ExprIdle
    /\ NormIdle
    /\ PipeIdle
    /\ CompIdle
    /\ MgrIdle
    /\ ParamIdle
    /\ ErrIdle
    /\ BtnIdle
    /\ GenIdle
    /\ HlpIdle
    /\ TxtIdle
    /\ RtrIdle
    /\ NamIdle

RenderI18n ==
    /\ i18nGen = NotLocalized
    /\ i18nGen' = renderI18n(i18nDoc)
    /\ UNCHANGED <<i18nDoc, looked>>
    /\ UNCHANGED notI18nVars

\* handleRoute for "_route:/" from an update in language msgLang, the root
\* page's text being ${key}.
LocalizedRoute(key, msgLang) ==
    /\ pc = "idle"
    /\ i18nGen # NotLocalized
    /\ LET ctxLang == withLanguage(session, msgLang)
           s1 == getRouter(session)
       IN /\ session' = Push(s1, RootURL)
          /\ histSeen' = History(s1)
          /\ obs' = [NoUpdate EXCEPT !.kind = "route", !.text = RootURL,
                        !.histBefore = session.hist, !.entered = obs.entered]
          /\ \E text \in i18n(i18nGen, ctxLang, key) :
                /\ sent' = <<Msg("page", text)>>
                /\ looked' = [called |-> TRUE, key |-> key, msgLang |-> msgLang,
                              hasPref |-> SessionKeyLanguage \in session.has,
                              pref |-> session.lang, text |-> text]
    /\ submits' = <<>>
    /\ UNCHANGED <<pc, i18nDoc, i18nGen>>
    /\ UNCHANGED <<dispVars, valVars, formVars, pagVars, exprVars, normVars, pipeVars, compVars, mgrVars, paramVars, errVars, btnVars, genVars, hlpVars, txtVars, rtrVars, namVars>>

LocalizedStep == \E key \in I18nKeys, msgLang \in MessageLangs : LocalizedRoute(key, msgLang)

I18nNext == RenderI18n \/ LocalizedStep \/ LangStep

SpecI18n == I18nInit /\ [][I18nNext]_vars

\* i18n.default of the document, in lower case; a document that declares
\* none gets the default the generator chose.
DefaultLanguage ==
    IF TrimSpace(i18nDoc.default) # <<>> THEN ToLower(TrimSpace(i18nDoc.default))
    ELSE i18nGen.i18nDefault

\* The document's text for a key in a language (compared in lower case).
Translation(key, lang) ==
    IF key \in DOMAIN i18nDoc.entries
          /\ \E d \in DOMAIN i18nDoc.entries[key] : ToLower(d) = lang
    THEN i18nDoc.entries[key][CHOOSE d \in DOMAIN i18nDoc.entries[key] : ToLower(d) = lang]
    ELSE ""

Translations(key) ==
    IF key \in DOMAIN i18nDoc.entries
    THEN {i18nDoc.entries[key][d] : d \in DOMAIN i18nDoc.entries[key]} \ {""}
    ELSE {}

\* C9: a localized lookup uses the session's language preference if one is
\* set, else the language of the incoming message, else i18n.default; its
\* text is the key's entry for that language, else the entry for the default
\* language, else some non-empty translation of the key, else the key.
C9_LanguageResolution ==
    looked.called =>
        LET msg == ToLower(TrimSpace(looked.msgLang))
            used == IF looked.hasPref THEN looked.pref
                    ELSE IF msg # <<>> THEN msg ELSE DefaultLanguage
            own == Translation(looked.key, used)
            def == Translation(looked.key, DefaultLanguage)
        IN IF own # "" THEN looked.text = own
           ELSE IF def # "" THEN looked.text = def
           ELSE IF Translations(looked.key) # {} THEN looked.text \in Translations(looked.key)
           ELSE looked.text = looked.key

\* The session prefers zh, the message is in English, the key has both
\* texts: the Chinese one is shown.
C9_Witness ==
    /\ looked.called
    /\ looked.hasPref
    /\ looked.pref = <<"z", "h">>
    /\ looked.msgLang = <<"E", "N">>
    /\ Translation(looked.key, <<"e", "n">>) = "hello"
    /\ looked.text = "nihao"

-----------------------------------------------------------------------------
(* Text expressions: stringExprToGo and rewriteExpr                        *)

AsciiLower ==
    {
     "a", "b", "c", "d", "e", "f", "g", "h", "i", "j", "k", "l", "m",
     "n", "o", "p", "q", "r", "s", "t", "u", "v", "w", "x", "y", "z"}

AsciiUpper ==
    {
     "A", "B", "C", "D", "E", "F", "G", "H", "I", "J", "K", "L", "M",
     "N", "O", "P", "Q", "R", "S", "T", "U", "V", "W", "X", "Y", "Z"}

AsciiDigits == {"0", "1", "2", "3", "4", "5", "6", "7", "8", "9"}

isIdentStart(ch) == ch = "_" \/ ch \in AsciiLower \/ ch \in AsciiUpper

isIdentPart(ch) == isIdentStart(ch) \/ ch \in AsciiDigits

\* strings.Index(s, sub), counted from 1: 0 when sub does not occur in s.
RECURSIVE IndexFrom(_, _, _)
IndexFrom(s, sub, i) ==
    IF i + Len(sub) - 1 > Len(s) THEN 0
    ELSE IF SubSeq(s, i, i + Len(sub) - 1) = sub THEN i
    ELSE IndexFrom(s, sub, i + 1)

Index(s, sub) == IndexFrom(s, sub, 1)

\* strings.ReplaceAll(s, c, by) for a one-character c.
RECURSIVE ReplaceAll(_, _, _)
ReplaceAll(s, c, by) ==
    IF s = <<>> THEN <<>>
    ELSE (IF Head(s) = c THEN by ELSE <<Head(s)>>) \o ReplaceAll(Tail(s), c, by)

\* strings.Join(parts, sep).
RECURSIVE JoinSep(_, _)
JoinSep(parts, sep) ==
    IF parts = <<>> THEN <<>>
    ELSE IF Len(parts) = 1 THEN Head(parts)
    ELSE Head(parts) \o sep \o JoinSep(Tail(parts), sep)

\* strconv.Quote on printable ASCII: the text between double quotes, with a
\* backslash before every double quote and every backslash.
RECURSIVE quoteChars(_)
quoteChars(s) ==
    IF s = <<>> THEN <<>>
    ELSE (IF Head(s) \in {"\"", "\\"} THEN <<"\\", Head(s)>> ELSE <<Head(s)>>)
         \o quoteChars(Tail(s))

Quote(s) == <<"\"">> \o quoteChars(s) \o <<"\"">>

\* fmt.Sprintf(format, arg) for a format with the one verb %q.
SprintfQ(format, arg) ==
    LET i == Index(format, <<"%", "q">>)
    IN IF i = 0 THEN format ELSE Take(format, i - 1) \o Quote(arg) \o Drop(format, i + 1)

getterName(name) == <<"G", "e", "t">> \o toCamel(name)

\* The map lookup m[k] of Go: the empty string for a key that is not there.
Lookup(m, k) == IF k \in DOMAIN m THEN m[k] ELSE <<>>

KwParameters == <<"p", "a", "r", "a", "m", "e", "t", "e", "r", "s">>
KwState == <<"s", "t", "a", "t", "e">>
KwItem == <<"i", "t", "e", "m">>
KwErr == <<"e", "r", "r">>
KwItems == <<"i", "t", "e", "m", "s">>

\* pageExprContext for a page that lists no items: the accessor calls of
\* the page's parameters and of the fields of its state, the i18n keys of
\* the document, no error expression.
pageExprContext(page, i18nKeys) ==
    LET stateExprs == [name \in page.state |->
                          <<"s", "t", "a", "t", "e", ".">> \o getterName(name) \o <<"(", ")">>]
    IN [paramExprs |-> [name \in page.params |->
                           <<"p", "a", "r", "a", "m", "e", "t", "e", "r", "s", ".">> \o getterName(name) \o <<"(", ")">>],
        stateExprs |-> stateExprs,
        itemExprs |-> [name \in {} |-> <<>>],
        stateItemsExpr |-> Lookup(stateExprs, KwItems),
        errExpr |-> <<>>,
        i18nKeys |-> i18nKeys,
        i18nFunc |-> <<"i", "1", "8", "n", "(", "c", "t", "x", ",", " ", "c", "h", "a", "t", "I", "D", ",", " ", "%", "q", ")">>]

\* The back quote character, which a TLA+ string cannot hold.
BackQuote == "backquote"

\* findExprEnd: the position of the first } that is outside quotes and
\* closes no brace opened inside the expression; 0 when there is none.
RECURSIVE findExprEndFrom(_, _, _, _)
findExprEndFrom(input, i, depth, quote) ==
    IF i > Len(input) THEN 0
    ELSE LET ch == input[i]
         IN IF quote # ""
            THEN IF quote = BackQuote
                 THEN findExprEndFrom(input, i + 1, depth,
                                      IF ch = BackQuote THEN "" ELSE quote)
                 ELSE IF ch = "\\" THEN findExprEndFrom(input, i + 2, depth, quote)
                 ELSE findExprEndFrom(input, i + 1, depth, IF ch = quote THEN "" ELSE quote)
            ELSE IF ch \in {"\"", "'", BackQuote} THEN findExprEndFrom(input, i + 1, depth, ch)
            ELSE IF ch = "{" THEN findExprEndFrom(input, i + 1, depth + 1, quote)
            ELSE IF ch = "}"
                 THEN IF depth = 0 THEN i
                      ELSE findExprEndFrom(input, i + 1, depth - 1, quote)
            ELSE findExprEndFrom(input, i + 1, depth, quote)

findExprEnd(input) == findExprEndFrom(input, 1, 0, "")

\* parseStringExpr: the literal segments and the expression segments of a
\* text, in order; from an unterminated ${ on, the rest is one literal.
RECURSIVE parseStringExpr(_)
parseStringExpr(input) ==
    IF input = <<>> THEN <<>>
    ELSE LET start == Index(input, <<"$", "{">>)
         IN IF start = 0 THEN <<[isExpr |-> FALSE, value |-> input]>>
            ELSE LET before == IF start > 1
                               THEN <<[isExpr |-> FALSE, value |-> Take(input, start - 1)]>>
                               ELSE <<>>
                     rest == Drop(input, start + 1)
                     end == findExprEnd(rest)
                 IN IF end = 0
                    THEN before \o <<[isExpr |-> FALSE, value |-> Drop(input, start - 1)]>>
                    ELSE LET exprValue ==
                                 TrimSpace(TrimSuffix(TrimSpace(Take(rest, end - 1)), <<",">>))
                         IN before \o <<[isExpr |-> TRUE, value |-> exprValue]>>
                                   \o parseStringExpr(Drop(rest, end))

keepFormatLiteral(value) == value

escapeFormatLiteral(value) == ReplaceAll(value, "%", <<"%", "%">>)

\* The end of the run of identifier characters that starts at i.
RECURSIVE identEnd(_, _)
identEnd(expr, i) ==
    IF i <= Len(expr) /\ isIdentPart(expr[i]) THEN identEnd(expr, i + 1) ELSE i

NoReplacement == [replacement |-> <<>>, next |-> 0]

\* The loop of i18nExprReplacement over the dotted segments after the
\* identifier: the longest extension that is a key, and where it ends.
RECURSIVE longestI18nKey(_, _, _, _, _)
longestI18nKey(expr, idx, current, found, ctx) ==
    IF idx <= Len(expr) /\ expr[idx] = "."
    THEN LET segStart == idx + 1
         IN IF segStart > Len(expr) \/ ~isIdentStart(expr[segStart]) THEN found
            ELSE LET segEnd == identEnd(expr, segStart + 1)
                     extended == current \o <<".">> \o SubSeq(expr, segStart, segEnd - 1)
                 IN longestI18nKey(expr, segEnd, extended,
                        IF extended \in ctx.i18nKeys
                        THEN [longest |-> extended, longestEnd |-> segEnd]
                        ELSE found,
                        ctx)
    ELSE found

\* i18nExprReplacement for the identifier expr[start..end-1].
i18nExprReplacement(expr, ident, start, end, ctx) ==
    IF ident \in ctx.i18nKeys
    THEN [replacement |-> SprintfQ(ctx.i18nFunc, ident), next |-> end]
    ELSE IF end > Len(expr) \/ expr[end] # "." THEN NoReplacement
    ELSE LET found == longestI18nKey(expr, end, ident,
                                     [longest |-> <<>>, longestEnd |-> 0], ctx)
         IN IF found.longest = <<>> THEN NoReplacement
            ELSE [replacement |-> SprintfQ(ctx.i18nFunc, found.longest),
                  next |-> found.longestEnd]

\* rewriteExpr from position i on: identifiers are looked up, first as i18n
\* keys, then as parameters.X, state.X, item.X, state and err; every other
\* character is copied.
RECURSIVE rewriteExprFrom(_, _, _)
rewriteExprFrom(expr, i, ctx) ==
    IF i > Len(expr) THEN <<>>
    ELSE IF ~isIdentStart(expr[i]) THEN <<expr[i]>> \o rewriteExprFrom(expr, i + 1, ctx)
    ELSE LET start == i
             end == identEnd(expr, i + 1)
             ident == SubSeq(expr, start, end - 1)
             localized == IF ctx.i18nFunc # <<>>
                          THEN i18nExprReplacement(expr, ident, start, end, ctx)
                          ELSE NoReplacement
         IN IF localized.replacement # <<>>
            THEN localized.replacement \o rewriteExprFrom(expr, localized.next, ctx)
            ELSE IF /\ ident \in {KwParameters, KwState, KwItem}
                    /\ end <= Len(expr)
                    /\ expr[end] = "."
            THEN LET fieldEnd == identEnd(expr, end + 1)
                     field == SubSeq(expr, end + 1, fieldEnd - 1)
                     replacement ==
                         CASE ident = KwParameters -> Lookup(ctx.paramExprs, field)
                           [] ident = KwState -> Lookup(ctx.stateExprs, field)
                           [] ident = KwItem -> Lookup(ctx.itemExprs, field)
                 IN (IF replacement # <<>> THEN replacement
                     ELSE SubSeq(expr, start, fieldEnd - 1))
                    \o rewriteExprFrom(expr, fieldEnd, ctx)
            ELSE IF ident = KwState /\ ctx.stateItemsExpr # <<>>
            THEN ctx.stateItemsExpr \o rewriteExprFrom(expr, end, ctx)
            ELSE IF ident = KwErr /\ ctx.errExpr # <<>>
            THEN ctx.errExpr \o rewriteExprFrom(expr, end, ctx)
            ELSE ident \o rewriteExprFrom(expr, end, ctx)

rewriteExpr(expr, ctx) == rewriteExprFrom(expr, 1, ctx)

\* A Go expression the generator emits for a text: the quoted format or
\* literal, the arguments, and the source text of the whole expression.
GoLiteral(quoted) == [format |-> quoted, args |-> <<>>, code |-> quoted]

stringExprToGo(raw, ctx) ==
    IF raw = <<>> THEN GoLiteral(Quote(<<>>))
    ELSE IF Index(raw, <<"$", "{">>) = 0 THEN GoLiteral(Quote(raw))
    ELSE LET segments == parseStringExpr(raw)
             exprs == SelectSeq(segments, LAMBDA s : s.isExpr)
             args == [k \in 1..Len(exprs) |-> rewriteExpr(exprs[k].value, ctx)]
             format == Join([k \in 1..Len(segments) |->
                                IF segments[k].isExpr THEN <<"%", "v">>
                                ELSE escapeFormatLiteral(segments[k].value)])
             formatString == Quote(format)
         IN IF args = <<>> THEN GoLiteral(formatString)
            ELSE [format |-> formatString,
                  args |-> args,
                  code |-> <<"f", "m", "t", ".", "S", "p", "r", "i", "n", "t", "f", "(">> \o formatString \o <<",", " ">>
                               \o JoinSep(args, <<",", " ">>) \o <<")">>]

-----------------------------------------------------------------------------
(* The text expression specification                                       *)

MaxPieces == 3

\* A text is written as a sequence of pieces: literal text, a terminated
\* span ${...}, and as its last piece possibly an unterminated ${.
Lit(t) == [kind |-> "lit", text |-> t]
Span(t) == [kind |-> "span", text |-> t]
Open(t) == [kind |-> "open", text |-> t]

ParamID == <<"I", "D">>
KeyHi == <<"h", "i">>
ExprParameterID == <<"p", "a", "r", "a", "m", "e", "t", "e", "r", "s", ".", "I", "D">>
ExprPadded == <<" ", "x", " ", ",">>
ExprBraces == <<"c", "{", "\"", "}", "\"", "}">>

LitPieces == {Lit(<<"p", "r", "e", "f", "i", "x", " ">>), Lit(<<" ", "s", "u", "f", "f", "i", "x">>), Lit(<<"%", "v", "}", "$">>)}
SpanPieces == {Span(ExprParameterID), Span(ExprPadded), Span(ExprBraces), Span(KeyHi)}
OpenPieces == {Open(<<"o">>)}
Pieces == LitPieces \cup SpanPieces \cup OpenPieces

PieceLists ==
    UNION {{ps \in [1..n -> Pieces] : \A k \in 1..(n - 1) : ps[k].kind # "open"} :
           n \in 1..MaxPieces}

ExprInputs ==
    [pieces : PieceLists, params : SUBSET {ParamID}, keys : SUBSET {KeyHi}]

pieceText(p) ==
    CASE p.kind = "lit" -> p.text
      [] p.kind = "span" -> <<"$", "{">> \o p.text \o <<"}">>
      [] p.kind = "open" -> <<"$", "{">> \o p.text

textOf(pieces) == Join([k \in 1..Len(pieces) |-> pieceText(pieces[k])])

ExprInit ==
    /\ exprIn \in ExprInputs
    /\ exprOut = NotRewritten
    /\ DispIdle
    /\ ConvIdle
    /\ ValIdle
    /\ FormIdle
    /\ PagIdle
    /\ I18nIdle
    /\ NormIdle
    /\ PipeIdle
    /\ CompIdle
    /\ MgrIdle
    /\ ParamIdle
    /\ ErrIdle
    /\ BtnIdle
    /\ GenIdle
    /\ HlpIdle
    /\ TxtIdle
    /\ RtrIdle
    /\ NamIdle

\* The generator renders a text field of the page.
RewriteText ==
    /\ ~exprOut.called
    /\ exprOut' = [called |-> TRUE,
                   go |-> stringExprToGo(textOf(exprIn.pieces),
                              pageExprContext([params |-> exprIn.params, state |-> {}],
                                              exprIn.keys))]
    /\ UNCHANGED exprIn
    /\ UNCHANGED notExprVars

ExprNext == RewriteText

SpecExpr == ExprInit /\ [][ExprNext]_vars

\* The terminated spans of the text, in order.
SpansOf(pieces) == SelectSeq(pieces, LAMBDA p : p.kind = "span")

\* The format template a text stands for: a verb per span, the literal
\* text with every percent sign doubled.
RECURSIVE DoublePercent(_)
DoublePercent(s) ==
    IF s = <<>> THEN <<>>
    ELSE IF Head(s) = "%" THEN <<"%", "%">> \o DoublePercent(Tail(s))
    ELSE <<Head(s)>> \o DoublePercent(Tail(s))

ExpectedTemplate(pieces) ==
    Join([k \in 1..Len(pieces) |->
             IF pieces[k].kind = "span" THEN <<"%", "v">>
             ELSE DoublePercent(pieceText(pieces[k]))])

\* What each span expression of the specification stands for in Go.
ExpectedArg(p, in) ==
    CASE p.text = ExprParameterID ->
             IF ParamID \in in.params THEN <<"p", "a", "r", "a", "m", "e", "t", "e", "r", "s", ".", "G", "e", "t", "I", "D", "(", ")">> ELSE ExprParameterID
      [] p.text = ExprPadded -> <<"x">>
      [] p.text = KeyHi ->
             IF KeyHi \in in.keys THEN <<"i", "1", "8", "n", "(", "c", "t", "x", ",", " ", "c", "h", "a", "t", "I", "D", ",", " ", "\"", "h", "i", "\"", ")">> ELSE KeyHi
      [] OTHER -> p.text

ExpectedArgs(in) ==
    LET spans == SpansOf(in.pieces)
    IN [k \in 1..Len(spans) |-> ExpectedArg(spans[k], in)]

\* The text a quoted Go string literal denotes.
RECURSIVE unquoteChars(_)
unquoteChars(s) ==
    IF s = <<>> THEN <<>>
    ELSE IF Head(s) = "\\" /\ Len(s) >= 2 THEN <<s[2]>> \o unquoteChars(Drop(s, 2))
    ELSE <<Head(s)>> \o unquoteChars(Tail(s))

Unquote(q) == unquoteChars(SubSeq(q, 2, Len(q) - 1))

\* The number of %v verbs of a format: %% is a percent sign, not a verb.
RECURSIVE VerbCount(_)
VerbCount(format) ==
    IF Len(format) < 2 THEN 0
    ELSE IF Head(format) # "%" THEN VerbCount(Tail(format))
    ELSE IF format[2] = "v" THEN 1 + VerbCount(Drop(format, 2))
    ELSE VerbCount(Drop(format, 2))

\* C10: for a text with k >= 1 terminated ${...} spans the emitted
\* expression is a fmt.Sprintf call whose format has exactly k %v verbs, one
\* where each span stood, with every % of the literal text doubled, and
\* whose arguments are the k rewritten span expressions in the order of the
\* spans; ${parameters.ID} for the declared parameter ID is the accessor
\* call parameters.GetID().
C10_TemplateAndArguments ==
    (exprOut.called /\ SpansOf(exprIn.pieces) # <<>>) =>
        LET k == Len(SpansOf(exprIn.pieces))
            template == Unquote(exprOut.go.format)
        IN /\ template = ExpectedTemplate(exprIn.pieces)
           /\ VerbCount(template) = k
           /\ Len(exprOut.go.args) = k
           /\ exprOut.go.args = ExpectedArgs(exprIn)
           /\ exprOut.go.code = <<"f", "m", "t", ".", "S", "p", "r", "i", "n", "t", "f", "(">> \o exprOut.go.format \o <<",", " ">>
                                    \o JoinSep(exprOut.go.args, <<",", " ">>) \o <<")">>

\* "prefix ${parameters.ID} suffix" on a page that declares ID: the template
\* is "prefix %v suffix" and the one argument is parameters.GetID().
C10_Witness ==
    /\ exprOut.called
    /\ textOf(exprIn.pieces) = <<"p", "r", "e", "f", "i", "x", " ", "$", "{", "p", "a", "r", "a", "m", "e", "t", "e", "r", "s", ".", "I", "D", "}", " ", "s", "u", "f", "f", "i", "x">>
    /\ ParamID \in exprIn.params
    /\ Unquote(exprOut.go.format) = <<"p", "r", "e", "f", "i", "x", " ", "%", "v", " ", "s", "u", "f", "f", "i", "x">>
    /\ exprOut.go.args = <<<<"p", "a", "r", "a", "m", "e", "t", "e", "r", "s", ".", "G", "e", "t", "I", "D", "(", ")">>>>

-----------------------------------------------------------------------------
(* The i18n keys in expressions specification                              *)

KeyA == <<"a">>
KeyAB == <<"a", ".", "b">>
KeyABC == <<"a", ".", "b", ".", "c">>
KeyB == <<"b">>
I18nKeyUniverse == {KeyA, KeyAB, KeyABC, KeyB}

\* Dotted identifier paths a span may hold.
DottedPaths == {KeyA, KeyAB, KeyABC, <<"a", ".", "b", ".", "d">>, <<"x", ".", "a", ".", "b">>, <<"b", ".", "a">>}

KeyInputs ==
    [pieces : {<<Span(p)>> : p \in DottedPaths}, params : {{}}, keys : SUBSET I18nKeyUniverse]

KeyInit ==
    /\ exprIn \in KeyInputs
    /\ exprOut = NotRewritten
    /\ DispIdle
    /\ ConvIdle
    /\ ValIdle
    /\ FormIdle
    /\ PagIdle
    /\ I18nIdle
    /\ NormIdle
    /\ PipeIdle
    /\ CompIdle
    /\ MgrIdle
    /\ ParamIdle
    /\ ErrIdle
    /\ BtnIdle
    /\ GenIdle
    /\ HlpIdle
    /\ TxtIdle
    /\ RtrIdle
    /\ NamIdle

SpecExprKeys == KeyInit /\ [][ExprNext]_vars

\* The prefixes of a dotted path that end where a segment ends.
DottedPrefixes(path) ==
    {Take(path, n) : n \in {m \in 1..Len(path) : m = Len(path) \/ path[m + 1] = "."}}

\* C11: the dotted path of a span is rewritten to the lookup of the longest
\* i18n key that is a dotted prefix of it, followed by what is left of the
\* path; a path no prefix of which is a key is left as it is.
C11_LongestKeyMatch ==
    exprOut.called =>
        LET path == exprIn.pieces[1].text
            known == DottedPrefixes(path) \cap exprIn.keys
        IN IF known = {} THEN exprOut.go.args = <<path>>
           ELSE LET longest == CHOOSE key \in known : \A other \in known : Len(other) <= Len(key)
                IN exprOut.go.args =
                       <<<<"i", "1", "8", "n", "(", "c", "t", "x", ",", " ", "c", "h", "a", "t", "I", "D", ",", " ">> \o Quote(longest) \o <<")">>
                             \o Drop(path, Len(longest))>>

\* The text the emitted Go expression evaluates to when it has no arguments.
LiteralValue(go) == Unquote(go.code)

\* C12: a text without a terminated ${...} span is emitted as a Go string
\* literal that evaluates to the text itself, percent signs included.
C12_LiteralVerbatim ==
    (exprOut.called /\ SpansOf(exprIn.pieces) = <<>>) =>
        /\ exprOut.go.args = <<>>
        /\ LiteralValue(exprOut.go) = textOf(exprIn.pieces)

-----------------------------------------------------------------------------
(* Document normalization: parser.go                                       *)

\* A YAML tree as yaml.Unmarshal gives it to normalizeDoc: a string, a
\* map[string]any with its keys, or a []any.
Str(s) == [kind |-> "str", str |-> s]
Map(f) == [kind |-> "map", map |-> f]
List(l) == [kind |-> "list", list |-> l]

IsStr(v) == v.kind = "str"
IsMap(v) == v.kind = "map"
IsList(v) == v.kind = "list"

EmptyMap == Map([k \in {} |-> NoTree])

\* _, ok := m[key]
Has(m, key) == key \in DOMAIN m.map

\* m[key] = value
Put(m, key, value) ==
    Map([k \in DOMAIN m.map \cup {key} |-> IF k = key THEN value ELSE m.map[k]])

\* value, ok := m[key].(map[string]any) and its like for []any
HasMap(m, key) == Has(m, key) /\ IsMap(m.map[key])
HasList(m, key) == Has(m, key) /\ IsList(m.map[key])

RECURSIVE normalizeSchemaRef(_)
RECURSIVE normalizeSchemaMap(_)

normalizeSchemaRefList(schema, key) ==
    IF HasList(schema, key)
    THEN LET value == schema.map[key].list
         IN Put(schema, key, List([i \in 1..Len(value) |-> normalizeSchemaRef(value[i])]))
    ELSE schema

\* The steps of normalizeSchemaMap, each on the schema the step before left.
normalizeSchemaType(schema) ==
    IF Has(schema, "type") /\ IsStr(schema.map["type"])
    THEN Put(schema, "type", List(<<schema.map["type"]>>))
    ELSE IF HasList(schema, "type")
    THEN LET types == SelectSeq(schema.map["type"].list, IsStr)
         IN IF types # <<>> THEN Put(schema, "type", List(types)) ELSE schema
    ELSE schema

normalizeSchemaItems(schema) ==
    IF Has(schema, "items")
    THEN Put(schema, "items", normalizeSchemaRef(schema.map["items"]))
    ELSE schema

normalizeSchemaProperties(schema) ==
    IF HasMap(schema, "properties")
    THEN Put(schema, "properties",
             Map([key \in DOMAIN schema.map["properties"].map |->
                     normalizeSchemaRef(schema.map["properties"].map[key])]))
    ELSE schema

normalizeSchemaAdditional(schema) ==
    IF Has(schema, "additionalProperties")
    THEN Put(schema, "additionalProperties",
             Map("schema" :> normalizeSchemaRef(schema.map["additionalProperties"])))
    ELSE schema

normalizeSchemaNot(schema) ==
    IF Has(schema, "not")
    THEN Put(schema, "not", normalizeSchemaRef(schema.map["not"]))
    ELSE schema

normalizeSchemaMap(schema) ==
    normalizeSchemaNot(
        normalizeSchemaRefList(
            normalizeSchemaRefList(
                normalizeSchemaRefList(
                    normalizeSchemaAdditional(
                        normalizeSchemaProperties(
                            normalizeSchemaItems(
                                normalizeSchemaType(schema)))),
                    "oneOf"),
                "anyOf"),
            "allOf"))

normalizeSchemaRef(value) ==
    IF IsMap(value)
    THEN IF Has(value, "schema") THEN normalizeSchemaRef(value.map["schema"])
         ELSE IF Has(value, "ref") THEN Map("ref" :> value.map["ref"])
         ELSE IF Has(value, "$ref") THEN Map("ref" :> value.map["$ref"])
         ELSE IF Has(value, "value")
         THEN LET inner == value.map["value"]
              IN IF IsMap(inner) THEN Map("value" :> normalizeSchemaMap(inner))
                 ELSE IF IsStr(inner) THEN Map("ref" :> inner)
                 ELSE Map("value" :> inner)
         ELSE Map("value" :> normalizeSchemaMap(value))
    ELSE IF IsStr(value) THEN Map("ref" :> value)
    ELSE value

RECURSIVE normalizeSchemaValue(_)
normalizeSchemaValue(value) ==
    IF IsMap(value)
    THEN IF Has(value, "schema") THEN normalizeSchemaValue(value.map["schema"])
         ELSE normalizeSchemaMap(value)
    ELSE IF IsStr(value) THEN Map("allOf" :> List(<<normalizeSchemaRef(value)>>))
    ELSE value

normalizeParameter(value) ==
    IF IsMap(value) /\ Has(value, "schema")
    THEN Put(value, "schema", normalizeSchemaRef(value.map["schema"]))
    ELSE value

hasParameterGroups(params) == \E key \in DOMAIN params.map : IsList(params.map[key])

ParameterLocations == <<"path", "query", "header", "cookie">>

\* The orders a `for ... range` over a Go map may visit the keys in.
RangeOrders(keys) ==
    {order \in [1..Cardinality(keys) -> keys] :
        \A i, j \in 1..Cardinality(keys) : i # j => order[i] # order[j]}

\* The parameters of the groups named in order, each group's own order kept.
RECURSIVE groupItems(_, _)
groupItems(params, order) ==
    IF order = <<>> THEN <<>>
    ELSE (IF HasList(params, Head(order))
          THEN LET value == params.map[Head(order)].list
               IN [i \in 1..Len(value) |-> normalizeParameter(value[i])]
          ELSE <<>>)
         \o groupItems(params, Tail(order))

\* normalizeParameterGroups: the groups path, query, header, cookie in that
\* order, then the other groups in the order the map yields them.
normalizeParameterGroups(params) ==
    LET used == {ParameterLocations[i] : i \in 1..Len(ParameterLocations)}
        others == DOMAIN params.map \ used
    IN {List(groupItems(params, ParameterLocations) \o groupItems(params, order)) :
           order \in RangeOrders(others)}

normalizeParameters(value) ==
    IF IsList(value)
    THEN {List([i \in 1..Len(value.list) |-> normalizeParameter(value.list[i])])}
    ELSE IF IsMap(value)
    THEN IF hasParameterGroups(value) THEN normalizeParameterGroups(value)
         ELSE {Map([key \in DOMAIN value.map |-> normalizeParameter(value.map[key])])}
    ELSE {value}

\* The body of the loop of normalizePages for one page that declares no form.
normalizePage(page) ==
    IF ~IsMap(page) THEN {page}
    ELSE LET withState == IF Has(page, "state")
                          THEN Put(page, "state", normalizeSchemaValue(page.map["state"]))
                          ELSE page
         IN IF Has(page, "parameters")
            THEN {Put(withState, "parameters", params) :
                     params \in normalizeParameters(page.map["parameters"])}
            ELSE {withState}

normalizePages(doc) ==
    IF ~HasMap(doc, "pages") THEN {doc}
    ELSE LET pages == doc.map["pages"].map
             results == UNION {normalizePage(pages[path]) : path \in DOMAIN pages}
         IN {Put(doc, "pages", Map(chosen)) :
                chosen \in {f \in [DOMAIN pages -> results] :
                               \A path \in DOMAIN pages : f[path] \in normalizePage(pages[path])}}

normalizeComponents(doc) ==
    IF ~HasMap(doc, "components") THEN doc
    ELSE IF ~HasMap(doc.map["components"], "schemas") THEN doc
    ELSE LET schemas == doc.map["components"].map["schemas"].map
         IN Put(doc, "components",
                Put(doc.map["components"], "schemas",
                    Map([name \in DOMAIN schemas |->
                            IF IsMap(schemas[name]) THEN normalizeSchemaValue(schemas[name])
                            ELSE schemas[name]])))

normalizeArg(arg) ==
    IF IsMap(arg) /\ Has(arg, "schema")
    THEN Put(arg, "schema", normalizeSchemaRef(arg.map["schema"]))
    ELSE arg

normalizeAPI(doc) ==
    IF ~HasMap(doc, "api") THEN doc
    ELSE LET api == doc.map["api"].map
         IN Put(doc, "api",
                Map([name \in DOMAIN api |->
                        IF IsMap(api[name]) /\ HasList(api[name], "args")
                        THEN LET args == api[name].map["args"].list
                             IN Put(api[name], "args",
                                    List([i \in 1..Len(args) |-> normalizeArg(args[i])]))
                        ELSE api[name]]))

\* normalizeDoc on a document without an i18n section: the trees it may
\* leave, one for each order the maps may be ranged over in.
normalizeDoc(doc) ==
    {normalizeAPI(pagesDone) : pagesDone \in normalizePages(normalizeComponents(doc))}

-----------------------------------------------------------------------------
(* The schema shapes specification                                         *)

\* The three ways a document may name the schema `name`.
BareName(name) == Str(name)
RefMap(name) == Map("ref" :> Str(name))
WrappedRef(name) == Map("schema" :> Map("ref" :> Str(name)))
ShapesOf(name) == {BareName(name), RefMap(name), WrappedRef(name)}

\* A document with the schema named in five places: the schema of a
\* parameter, of an API argument, of a property, the items of an array,
\* and the state of the page.
ShapeDoc(param, arg, prop, items, state) ==
    Map("components" :>
            Map("schemas" :>
                Map("Box" :> Map("type" :> Str("object")
                                 @@ "properties" :> Map("owner" :> prop))
                    @@ "Bag" :> Map("type" :> Str("array") @@ "items" :> items)))
        @@ "pages" :>
            Map("/p" :> Map("parameters" :>
                                Map("id" :> Map("in" :> Str("query") @@ "schema" :> param))
                            @@ "state" :> state))
        @@ "api" :>
            Map("load" :> Map("args" :>
                                  List(<<Map("name" :> Str("a") @@ "schema" :> arg)>>))))

ShapeDocs ==
    {ShapeDoc(param, arg, prop, items, state) :
        param \in ShapesOf("User"), arg \in ShapesOf("Item"), prop \in ShapesOf("User"),
        items \in ShapesOf("Item"), state \in ShapesOf("User")}

NormInit ==
    /\ rawDoc \in ShapeDocs
    /\ normDoc = NoTree
    /\ DispIdle
    /\ ConvIdle
    /\ ValIdle
    /\ FormIdle
    /\ PagIdle
    /\ I18nIdle
    /\ ExprIdle
    /\ PipeIdle
    /\ CompIdle
    /\ MgrIdle
    /\ ParamIdle
    /\ ErrIdle
    /\ BtnIdle
    /\ GenIdle
    /\ HlpIdle
    /\ TxtIdle
    /\ RtrIdle
    /\ NamIdle

\* Parser.Parse normalizes the tree it read.
NormalizeDoc ==
    /\ normDoc = NoTree
    /\ normDoc' \in normalizeDoc(rawDoc)
    /\ UNCHANGED rawDoc
    /\ UNCHANGED notNormVars

NormNext == NormalizeDoc

SpecNormalize == NormInit /\ [][NormNext]_vars

\* The schema-bearing places of the document after normalization.
ParamSchemaOf(doc) == doc.map["pages"].map["/p"].map["parameters"].map["id"].map["schema"]
ArgSchemaOf(doc) == doc.map["api"].map["load"].map["args"].list[1].map["schema"]
PropertyOf(doc) == doc.map["components"].map["schemas"].map["Box"].map["properties"].map["owner"]
ItemsOf(doc) == doc.map["components"].map["schemas"].map["Bag"].map["items"]
StateOf(doc) == doc.map["pages"].map["/p"].map["state"]

\* C13: whichever of the three shapes names a schema, after normalization
\* the place holds the canonical {ref: name}: in a parameter's schema, an
\* API argument's schema, a property, the items, and the state of a page.
C13_ShapesNormalizeToRef ==
    normDoc # NoTree =>
        /\ ParamSchemaOf(normDoc) = RefMap("User")
        /\ ArgSchemaOf(normDoc) = RefMap("Item")
        /\ PropertyOf(normDoc) = RefMap("User")
        /\ ItemsOf(normDoc) = RefMap("Item")
        /\ StateOf(normDoc) = RefMap("User")

-----------------------------------------------------------------------------
(* The pipeline on one document: Parse, then Generate                      *)

MaxRuns == 2

\* The characters of the parameter names the documents use.
Chars(name) ==
    CASE name = "id" -> <<"i", "d">>
      [] name = "n" -> <<"n">>

\* A decoded openapi3.Parameter: its name and its location.
ParamOf(node, key) ==
    [name |-> IF Has(node, "name") THEN node.map["name"].str ELSE key,
     loc |-> IF Has(node, "in") THEN node.map["in"].str ELSE ""]

\* result[param.Name] = param over the list, a later entry replacing an
\* earlier one of the same name.
RECURSIVE decodeParameterList(_, _)
decodeParameterList(list, result) ==
    IF list = <<>> THEN result
    ELSE LET param == ParamOf(Head(list), "")
         IN decodeParameterList(Tail(list),
                [name \in DOMAIN result \cup {param.name} |->
                    IF name = param.name THEN param ELSE result[name]])

NoParameters == [name \in {} |-> [name |-> "", loc |-> ""]]

\* Parameters.UnmarshalYAML: a map keyed by parameter name, or an error.
decodeParameters(node) ==
    IF IsMap(node)
    THEN [err |-> "", params |-> [key \in DOMAIN node.map |-> ParamOf(node.map[key], key)]]
    ELSE IF IsList(node)
    THEN IF \E i \in 1..Len(node.list) : ParamOf(node.list[i], "").name = ""
         THEN [err |-> "parameter name is required", params |-> NoParameters]
         ELSE [err |-> "", params |-> decodeParameterList(node.list, NoParameters)]
    ELSE [err |-> "parameters must be a map or list", params |-> NoParameters]

\* parseParameters: the parameters in the sorted order of their keys, the
\* location query where none is given.
parseParameters(params) ==
    LET keys == SortStrings({Chars(key) : key \in DOMAIN params})
    IN [i \in 1..Len(keys) |->
           LET param == params[CHOOSE key \in DOMAIN params : Chars(key) = keys[i]]
           IN [name |-> param.name,
               loc |-> IF param.loc = "" THEN "query" ELSE param.loc]]

\* What Generate emits for the page /p of a normalized document: the
\* parameters of ParametersPageP, and whether the page is routed by a
\* matcher (it has path parameters) or by its static path.
generatePage(tree) ==
    LET page == tree.map["pages"].map["/p"]
        decoded == IF Has(page, "parameters") THEN decodeParameters(page.map["parameters"])
                   ELSE [err |-> "", params |-> NoParameters]
    IN IF decoded.err # "" THEN [err |-> decoded.err, params |-> <<>>, matcher |-> FALSE]
       ELSE LET params == parseParameters(decoded.params)
            IN [err |-> "", params |-> params,
                matcher |-> \E i \in 1..Len(params) : params[i].loc = "path"]

\* The parameters a group of the document may list.
GroupParams ==
    {Map("name" :> Str("id") @@ "in" :> Str("path")),
     Map("name" :> Str("id") @@ "in" :> Str("query")),
     Map("name" :> Str("n"))}

GroupNames == {"path", "query", "extra", "more"}

\* Documents with one page whose parameters are grouped by location.
GroupDocs ==
    {Map("pages" :> Map("/p" :> Map("parameters" :> Map([g \in groups |-> List(<<of[g]>>)])))) :
        groups \in SUBSET GroupNames \ {{}}, of \in [GroupNames -> GroupParams]}

PipeInit ==
    /\ rawDoc \in GroupDocs
    /\ normDoc = NoTree
    /\ outputs = <<>>
    /\ DispIdle
    /\ ConvIdle
    /\ ValIdle
    /\ FormIdle
    /\ PagIdle
    /\ I18nIdle
    /\ ExprIdle
    /\ CompIdle
    /\ MgrIdle
    /\ ParamIdle
    /\ ErrIdle
    /\ BtnIdle
    /\ GenIdle
    /\ HlpIdle
    /\ TxtIdle
    /\ RtrIdle
    /\ NamIdle

\* One run of the pipeline on the document: Parse normalizes and decodes
\* the tree it read, Generate emits from the decoded document. A run starts
\* from the document and keeps nothing of the runs before it.
RunPipeline ==
    /\ Len(outputs) < MaxRuns
    /\ \E tree \in normalizeDoc(rawDoc) :
          /\ normDoc' = tree
          /\ outputs' = Append(outputs, generatePage(tree))
    /\ UNCHANGED rawDoc
    /\ UNCHANGED notRunVars

PipeNext == RunPipeline

SpecPipeline == PipeInit /\ [][PipeNext]_vars

\* C14: the runs of the pipeline on one document return the same output.
C14_RunsAgree ==
    \A i, j \in 1..Len(outputs) : outputs[i] = outputs[j]

-----------------------------------------------------------------------------
(* Component structs: schemaFields and orderedSchemaFields                 *)

MaxRequired == 2

\* orderedSchemaFields: the required names that are properties, as the
\* required list gives them, then the other properties sorted.
orderedSchemaFields(schema) ==
    LET required == SelectSeq(schema.required, LAMBDA name : name \in schema.properties)
        requiredSet == {schema.required[i] : i \in 1..Len(schema.required)}
        remaining == SortStrings(schema.properties \ requiredSet)
    IN required \o remaining

\* schemaFields: one field for each ordered name that is a property; the
\* field is known here by its name.
schemaFields(schema) ==
    SelectSeq(orderedSchemaFields(schema), LAMBDA name : name \in schema.properties)

PropertyNames == {<<"a">>, <<"b">>, <<"c">>}
RequiredNames == PropertyNames \cup {<<"z">>}

\* Required lists without a repeated name.
RequiredLists ==
    UNION {{list \in [1..n -> RequiredNames] :
               \A i, j \in 1..n : i # j => list[i] # list[j]} : n \in 0..MaxRequired}

Schemas == [properties : SUBSET PropertyNames, required : RequiredLists]

CompInit ==
    /\ compSchema \in Schemas
    /\ compFields = NoFields
    /\ DispIdle
    /\ ConvIdle
    /\ ValIdle
    /\ FormIdle
    /\ PagIdle
    /\ I18nIdle
    /\ ExprIdle
    /\ NormIdle
    /\ PipeIdle
    /\ MgrIdle
    /\ ParamIdle
    /\ ErrIdle
    /\ BtnIdle
    /\ GenIdle
    /\ HlpIdle
    /\ TxtIdle
    /\ RtrIdle
    /\ NamIdle

\* prepareComponents computes the fields of the component; renderComponents
\* emits the struct with the fields in that order.
PrepareComponent ==
    /\ compFields = NoFields
    /\ compFields' = schemaFields(compSchema)
    /\ UNCHANGED compSchema
    /\ UNCHANGED notCompVars

CompNext == PrepareComponent

SpecComponents == CompInit /\ [][CompNext]_vars

RequiredProperties(schema) ==
    {name \in schema.properties : \E i \in 1..Len(schema.required) : schema.required[i] = name}

\* C15: the fields of the struct are the required properties in
\* alphabetical order, then the optional properties in alphabetical order,
\* each property once, whatever the order of the required list.
C15_RequiredThenAlphabetical ==
    compFields # NoFields =>
        compFields = SortStrings(RequiredProperties(compSchema))
                         \o SortStrings(compSchema.properties \ RequiredProperties(compSchema))

-----------------------------------------------------------------------------
(* The session manager: MemorySessionManager and MemorySession             *)

MaxOps == 2

\* Three goroutines call Get, each for one of two chats.
Callers == {1, 2, 3}
ChatIDs == {1, 2}
SessionKeys == {"k"}

\* No session in the map (a nil *MemorySession); no value under a key.
NilSession == 0
NoValue == 0

EmptyData == [key \in SessionKeys |-> NoValue]

\* The second lookup of Get, under the write lock: the session of the chat
\* if another caller stored one meanwhile, else the fresh one.
createAlways(sessions, chatID, fresh) == fresh

lookupOrCreate(sessions, chatID, fresh) ==
    IF sessions[chatID] # NilSession THEN sessions[chatID] ELSE fresh

MgrInit ==
    /\ mgrSessions = [chatID \in ChatIDs |-> NilSession]
    /\ sessData = <<>>
    /\ callers \in {[c \in Callers |->
                        [pc |-> "start", chatID |-> chat[c], session |-> NilSession,
                         slow |-> FALSE, ops |-> 0, got |-> NoValue, expected |-> NoValue]] :
                    chat \in [Callers -> ChatIDs]}
    /\ written = [chatID \in ChatIDs |-> EmptyData]
    /\ DispIdle
    /\ ConvIdle
    /\ ValIdle
    /\ FormIdle
    /\ PagIdle
    /\ I18nIdle
    /\ ExprIdle
    /\ NormIdle
    /\ PipeIdle
    /\ CompIdle
    /\ ParamIdle
    /\ ErrIdle
    /\ BtnIdle
    /\ GenIdle
    /\ HlpIdle
    /\ TxtIdle
    /\ RtrIdle
    /\ NamIdle

\* MemorySessionManager.Get from m.mu.RLock() to m.mu.RUnlock(): the caller
\* reads the map. The read lock keeps every writer out, so the section is
\* one step.
ManagerGetRead(c) ==
    /\ callers[c].pc = "start"
    /\ LET found == mgrSessions[callers[c].chatID]
       IN callers' = [callers EXCEPT ![c].pc = IF found # NilSession THEN "ready" ELSE "create",
                                     ![c].session = found]
    /\ UNCHANGED <<mgrSessions, sessData, written>>
    /\ UNCHANGED notMgrVars

\* MemorySessionManager.Get from m.mu.Lock() to m.mu.Unlock() and the
\* return: the caller found no session, looks again and creates one if
\* there is still none.
ManagerGetCreate(c) ==
    /\ callers[c].pc = "create"
    /\ LET fresh == Len(sessData) + 1
           found == lookupOrCreate(mgrSessions, callers[c].chatID, fresh)
       IN /\ mgrSessions' = [mgrSessions EXCEPT ![callers[c].chatID] = found]
          /\ sessData' = IF found = fresh THEN Append(sessData, EmptyData) ELSE sessData
          /\ callers' = [callers EXCEPT ![c].pc = "ready", ![c].session = found,
                                        ![c].slow = TRUE]
    /\ UNCHANGED written
    /\ UNCHANGED notMgrVars

\* MemorySession.Set on the session the caller holds, under s.mu.
SessionSet(c, key) ==
    /\ callers[c].pc = "ready"
    /\ callers[c].ops < MaxOps
    /\ sessData' = [sessData EXCEPT ![callers[c].session][key] = c]
    /\ written' = [written EXCEPT ![callers[c].chatID][key] = c]
    /\ callers' = [callers EXCEPT ![c].ops = @ + 1]
    /\ UNCHANGED mgrSessions
    /\ UNCHANGED notMgrVars

\* MemorySession.Delete on the session the caller holds, under s.mu.
SessionDelete(c, key) ==
    /\ callers[c].pc = "ready"
    /\ callers[c].ops < MaxOps
    /\ sessData' = [sessData EXCEPT ![callers[c].session][key] = NoValue]
    /\ written' = [written EXCEPT ![callers[c].chatID][key] = NoValue]
    /\ callers' = [callers EXCEPT ![c].ops = @ + 1]
    /\ UNCHANGED mgrSessions
    /\ UNCHANGED notMgrVars

\* MemorySession.Get on the session the caller holds, under s.mu.RLock:
\* the value under the key, or ErrKeyNotFound (no value).
SessionGet(c, key) ==
    /\ callers[c].pc = "ready"
    /\ callers[c].ops < MaxOps
    /\ callers' = [callers EXCEPT ![c].ops = @ + 1,
                                  ![c].got = sessData[callers[c].session][key],
                                  ![c].expected = written[callers[c].chatID][key]]
    /\ UNCHANGED <<mgrSessions, sessData, written>>
    /\ UNCHANGED notMgrVars

ManagerGetReadStep == \E c \in Callers : ManagerGetRead(c)
ManagerGetCreateStep == \E c \in Callers : ManagerGetCreate(c)
SessionSetStep == \E c \in Callers, key \in SessionKeys : SessionSet(c, key)
SessionDeleteStep == \E c \in Callers, key \in SessionKeys : SessionDelete(c, key)
SessionGetStep == \E c \in Callers, key \in SessionKeys : SessionGet(c, key)

MgrNext ==
    \/ ManagerGetReadStep
    \/ ManagerGetCreateStep
    \/ SessionSetStep
    \/ SessionDeleteStep
    \/ SessionGetStep

SpecSessions == MgrInit /\ [][MgrNext]_vars

Holding(c) == callers[c].pc = "ready"

\* C16: callers that asked for the same chat ID hold the same session and
\* callers that asked for different chat IDs hold different ones, also when
\* they ran Get concurrently; the session a caller holds stores, under every
\* key, what the last completed Set or Delete of its own conversation left,
\* and a Get on it returned just that.
C16_OneSessionPerChat ==
    /\ \A c, d \in Callers :
          (Holding(c) /\ Holding(d)) =>
              (callers[c].chatID = callers[d].chatID <=> callers[c].session = callers[d].session)
    /\ \A c \in Callers :
          Holding(c) =>
              /\ callers[c].session = mgrSessions[callers[c].chatID]
              /\ sessData[callers[c].session] = written[callers[c].chatID]
              /\ callers[c].got = callers[c].expected

\* Two callers of one chat both found no session, both went on to the
\* write lock, and hold the same session; one has set a key and the other
\* has read that value from it.
C16_Witness ==
    \E c, d \in Callers :
        /\ c # d
        /\ callers[c].chatID = callers[d].chatID
        /\ Holding(c) /\ Holding(d)
        /\ callers[c].slow /\ callers[d].slow
        /\ callers[c].session = callers[d].session
        /\ \E key \in SessionKeys : sessData[callers[c].session][key] = c
        /\ callers[d].got = c

-----------------------------------------------------------------------------
(* Parameter parsing: the generated ParseParametersPage<Name>              *)

DigitValue(c) ==
    CASE c = "0" -> 0 [] c = "1" -> 1 [] c = "2" -> 2 [] c = "3" -> 3 [] c = "4" -> 4
      [] c = "5" -> 5 [] c = "6" -> 6 [] c = "7" -> 7 [] c = "8" -> 8 [] c = "9" -> 9

\* The longest run of decimal digits s starts with.
RECURSIVE DigitRun(_)
DigitRun(s) ==
    IF s # <<>> /\ Head(s) \in AsciiDigits THEN <<Head(s)>> \o DigitRun(Tail(s)) ELSE <<>>

RECURSIVE DecimalValue(_, _)
DecimalValue(digits, acc) ==
    IF digits = <<>> THEN acc
    ELSE DecimalValue(Tail(digits), 10 * acc + DigitValue(Head(digits)))

\* The generated ToInt and ToInt64: fmt.Sscanf(s, "%d", &i). The scan skips
\* leading spaces, takes a sign and the digits that follow, and leaves the
\* rest of s unread; it fails when no digit is there.
ToInt(s) ==
    LET text == TrimLeftChar(s, " ")
        signed == text # <<>> /\ Head(text) \in {"+", "-"}
        digits == DigitRun(IF signed THEN Tail(text) ELSE text)
    IN IF digits = <<>> THEN [err |-> "expected integer", value |-> 0]
       ELSE [err |-> "",
             value |-> IF signed /\ Head(text) = "-" THEN 0 - DecimalValue(digits, 0)
                       ELSE DecimalValue(digits, 0)]

ErrBadRequest == "bad request"

\* defaultConstName: the name of the constant that holds a default.
defaultConstName(pageName, paramName) ==
    LET lower == ToLower(paramName)
    IN <<"d", "e", "f", "a", "u", "l", "t">> \o pageName \o
       (CASE lower = <<"r", "o", "w">> -> <<"R", "o", "w", "s">>
          [] lower = <<"c", "o", "l", "u", "m", "n">> -> <<"C", "o", "l", "u", "m", "n", "s">>
          [] lower = <<"p", "a", "g", "e">> -> <<"P", "a", "g", "e">>
          [] OTHER -> toCamel(paramName))

\* defaultConstants: one constant for each name, the first query parameter
\* with a default that has the name giving the value.
RECURSIVE defaultConstantsFrom(_, _, _)
defaultConstantsFrom(pageName, params, seen) ==
    IF params = <<>> THEN seen
    ELSE LET param == Head(params)
             name == defaultConstName(pageName, param.name)
         IN IF param.loc = "path" \/ param.default = <<>> \/ name \in DOMAIN seen
            THEN defaultConstantsFrom(pageName, Tail(params), seen)
            ELSE defaultConstantsFrom(pageName, Tail(params),
                     [n \in DOMAIN seen \cup {name} |->
                         IF n = name THEN param.default ELSE seen[n]])

defaultConstants(pageName, params) ==
    defaultConstantsFrom(pageName, params, [n \in {} |-> <<>>])

\* The value of an integer constant written as a decimal literal.
ConstantValue(literal) == ToInt(literal).value

Parsed(value) == [err |-> "", value |-> value]
Rejected == [err |-> ErrBadRequest, value |-> 0]

\* The code parseParam emits for one parameter, run on the route: raw is
\* the text the route gives for the parameter and whether it gives one.
parseParam(param, pageName, constants, raw) ==
    LET queryValue == IF raw.present THEN raw.text ELSE <<>>
    IN IF param.loc = "path"
       THEN IF ~raw.present \/ raw.text = <<>> THEN Rejected
            ELSE IF param.goType = "int64"
            THEN (IF ToInt(raw.text).err # "" THEN Rejected ELSE Parsed(ToInt(raw.text).value))
            ELSE Parsed(raw.text)
       ELSE IF param.goType \in {"int", "int64"}
       THEN IF ~param.required
            THEN LET defaultValue ==
                         IF param.default = <<>> THEN 0
                         ELSE ConstantValue(constants[defaultConstName(pageName, param.name)])
                 IN IF queryValue = <<>> THEN Parsed(defaultValue)
                    ELSE IF ToInt(queryValue).err # "" THEN Rejected
                    ELSE Parsed(ToInt(queryValue).value)
            ELSE IF queryValue = <<>> THEN Rejected
            ELSE IF ToInt(queryValue).err # "" THEN Rejected
            ELSE Parsed(ToInt(queryValue).value)
       ELSE IF ~param.required
       THEN (IF param.default # <<>> /\ queryValue = <<>> THEN Parsed(param.default)
             ELSE Parsed(queryValue))
       ELSE IF queryValue = <<>> THEN Rejected
       ELSE Parsed(queryValue)

\* The generated ParseParametersPage<Name>: the parameters one after the
\* other, nil and the error at the first that is rejected.
RECURSIVE parseParametersFrom(_, _, _, _, _)
parseParametersFrom(params, pageName, constants, raw, values) ==
    IF params = <<>> THEN [called |-> TRUE, err |-> "", nil |-> FALSE, values |-> values]
    ELSE LET result == parseParam(Head(params), pageName, constants, raw[Head(params).name])
         IN IF result.err # ""
            THEN [called |-> TRUE, err |-> result.err, nil |-> TRUE, values |-> <<>>]
            ELSE parseParametersFrom(Tail(params), pageName, constants, raw,
                                     Append(values, result.value))

ParseParametersPage(pageName, params, raw) ==
    parseParametersFrom(params, pageName, defaultConstants(pageName, params), raw, <<>>)

-----------------------------------------------------------------------------
(* The parameter parsing specification                                     *)

NameID == <<"i", "d">>
NameN == <<"n">>
PageP == <<"P">>

\* The path parameter id and the query parameter n, as a page may declare
\* them: n optional or required, as a string or an integer, with the
\* default 5 or with none.
PathParamDecls ==
    [name : {NameID}, loc : {"path"}, goType : {"string", "int64"},
     required : {TRUE}, default : {<<>>}]

QueryParamDecls ==
    [name : {NameN}, loc : {"query"}, goType : {"string", "int", "int64"},
     required : BOOLEAN, default : {<<>>, <<"5">>}]

\* The parameters of a page, in the sorted order of their names.
ParamLists ==
    {<<p>> : p \in PathParamDecls} \cup {<<q>> : q \in QueryParamDecls}
        \cup {<<p, q>> : p \in PathParamDecls, q \in QueryParamDecls}

\* What a route gives for a parameter: nothing, the empty text, or a text.
Given(text) == [present |-> TRUE, text |-> text]
NotGiven == [present |-> FALSE, text |-> <<>>]
RawValues ==
    {NotGiven, Given(<<>>), Given(<<"7">>), Given(<<"1", "2", "a">>), Given(<<"a">>)}

ParamCalls ==
    {[params |-> params, raw |-> raw] :
        params \in ParamLists, raw \in [{NameID, NameN} -> RawValues]}

ParamInit ==
    /\ paramCall \in {call \in ParamCalls :
                         \A name \in {NameID, NameN} :
                             (\A i \in 1..Len(call.params) : call.params[i].name # name)
                                 => call.raw[name] = NotGiven}
    /\ parsed = NotParsed
    /\ DispIdle
    /\ ConvIdle
    /\ ValIdle
    /\ FormIdle
    /\ PagIdle
    /\ I18nIdle
    /\ ExprIdle
    /\ NormIdle
    /\ PipeIdle
    /\ CompIdle
    /\ MgrIdle
    /\ ErrIdle
    /\ BtnIdle
    /\ GenIdle
    /\ HlpIdle
    /\ TxtIdle
    /\ RtrIdle
    /\ NamIdle

\* A route or submit callback parses the parameters of the page.
ParseCall ==
    /\ ~parsed.called
    /\ parsed' = ParseParametersPage(PageP, paramCall.params, paramCall.raw)
    /\ UNCHANGED paramCall
    /\ UNCHANGED notParamVars

ParamNext == ParseCall

SpecParams == ParamInit /\ [][ParamNext]_vars

\* A text that is a decimal integer, from its first to its last character.
IsInteger(text) ==
    LET digits == IF text # <<>> /\ Head(text) \in {"+", "-"} THEN Tail(text) ELSE text
    IN digits # <<>> /\ \A i \in 1..Len(digits) : digits[i] \in AsciiDigits

RawText(raw) == IF raw.present THEN raw.text ELSE <<>>

IsOptionalInt(param) ==
    param.loc # "path" /\ param.goType \in {"int", "int64"} /\ ~param.required

\* The parameters the claim says are rejected on this route.
MustBeRejected(param, raw) ==
    \/ param.loc = "path" /\ RawText(raw) = <<>>
    \/ param.loc # "path" /\ param.required /\ RawText(raw) = <<>>
    \/ IsOptionalInt(param) /\ RawText(raw) # <<>> /\ ~IsInteger(RawText(raw))

DeclaredDefault(param) == IF param.default = <<>> THEN 0 ELSE 5

\* C17: an optional integer query parameter that is absent or empty gets
\* its declared default, 0 without one, and by itself causes no error; one
\* that is present and not an integer, a required query parameter that is
\* absent or empty, and a path parameter that is absent or empty each end
\* the parsing with a bad-request error and no parameters object.
C17_ParameterParsing ==
    parsed.called =>
        LET params == paramCall.params
            raw == paramCall.raw
        IN /\ (\E i \in 1..Len(params) : MustBeRejected(params[i], raw[params[i].name]))
                  => (parsed.err = ErrBadRequest /\ parsed.nil)
           /\ \A i \in 1..Len(params) :
                  (IsOptionalInt(params[i]) /\ RawText(raw[params[i].name]) = <<>>)
                      => /\ parsed.err = "" => parsed.values[i] = DeclaredDefault(params[i])
                         /\ Len(params) = 1 => parsed.err = ""

-----------------------------------------------------------------------------
(* The fallback error page: what is generated for a document with /error   *)

PAny == <<"/", "{", "i", "d", "}">>

\* renderInterfaces: the StateProvider method of a page.
providerMethodName(pageName) ==
    <<"P", "r", "o", "v", "i", "d", "e">> \o pageName \o <<"S", "t", "a", "t", "e">>

\* renderParameterParsers: the parameter parser of a page.
parserFuncName(pageName) ==
    <<"P", "a", "r", "s", "e", "P", "a", "r", "a", "m", "e", "t", "e", "r", "s", "P", "a", "g", "e">>
        \o pageName

renderInterfaces(pages) == [i \in 1..Len(pages) |-> providerMethodName(pageNameFromPath(pages[i].path))]

renderParameterParsers(pages) == [i \in 1..Len(pages) |-> parserFuncName(pageNameFromPath(pages[i].path))]

\* The /error page as a document may declare it: with or without a form and a
\* query parameter.  The other pages: static ones, /x/{id}, and /{id} whose
\* pattern matches every path of one segment.
ErrorPageDecls ==
    [path : {ErrorPath}, params : {{}, {[name |-> <<"n">>, loc |-> "query"]}}, form : BOOLEAN]

OtherPageDecls ==
    [path : {PRoot}, params : {{}}, form : {FALSE}]
        \cup [path : {PXNew}, params : {{}}, form : BOOLEAN]
        \cup [path : {PXId, PAny}, params : {{}, {[name |-> <<"i", "d">>, loc |-> "path"]}}, form : BOOLEAN]

ErrorDocs ==
    {d \in SUBSET (ErrorPageDecls \cup OtherPageDecls) :
        /\ d # {}
        /\ \A p, q \in d : p.path = q.path => p = q}

ErrInit ==
    /\ errorDoc \in ErrorDocs
    /\ generated = NotEmitted
    /\ errorRouted = NoDispatch
    /\ DispIdle
    /\ ConvIdle
    /\ ValIdle
    /\ FormIdle
    /\ PagIdle
    /\ I18nIdle
    /\ ExprIdle
    /\ NormIdle
    /\ PipeIdle
    /\ CompIdle
    /\ MgrIdle
    /\ ParamIdle
    /\ BtnIdle
    /\ GenIdle
    /\ HlpIdle
    /\ TxtIdle
    /\ RtrIdle
    /\ NamIdle

\* Generate on a document with pages: prepare, then the emitters write the
\* dispatch switches, the parameter parsers and the StateProvider interface.
GenerateDoc ==
    /\ ~generated.called
    /\ generated' = [called |-> TRUE,
                     routes |-> renderRouteTable(errorDoc),
                     submits |-> renderSubmitTable(errorDoc),
                     providers |-> renderInterfaces(preparePages(errorDoc)),
                     parsers |-> renderParameterParsers(preparePages(errorDoc))]
    /\ UNCHANGED <<errorDoc, errorRouted>>
    /\ UNCHANGED notErrVars

\* The generated onRoute for a route callback.
OnRouteURL(req) ==
    /\ generated.called
    /\ errorRouted' = [kind |-> "route", req |-> req, result |-> RunSwitch(generated.routes, req)]
    /\ UNCHANGED <<errorDoc, generated>>
    /\ UNCHANGED notErrVars

\* The generated onSubmit for a submit callback that carries form values.
OnSubmitURL(req) ==
    /\ generated.called
    /\ errorRouted' = [kind |-> "submit", req |-> req, result |-> RunSwitch(generated.submits, req)]
    /\ UNCHANGED <<errorDoc, generated>>
    /\ UNCHANGED notErrVars

ErrorRouteStep == \E req \in Requests \cup {<<"/", "7">>} : OnRouteURL(req)

ErrorSubmitStep == \E req \in Requests \cup {<<"/", "7">>} : OnSubmitURL(req)

ErrNext == GenerateDoc \/ ErrorRouteStep \/ ErrorSubmitStep

SpecErrorPage == ErrInit /\ [][ErrNext]_vars

DeclaresErrorPage == \E p \in errorDoc : normalizePathPattern(p.path) = ErrorPath

ErrorName == <<"E", "r", "r", "o", "r">>

InSeq(x, s) == \E i \in 1..Len(s) : s[i] = x

\* What is generated for a document that declares /error: no case of either
\* dispatch switch, no state-provider method and no parameter parser.
ErrorPageNotGenerated ==
    /\ \A i \in 1..Len(generated.routes) : generated.routes[i].path # ErrorPath
    /\ \A i \in 1..Len(generated.submits) : generated.submits[i].path # ErrorPath
    /\ ~InSeq(providerMethodName(ErrorName), generated.providers)
    /\ ~InSeq(parserFuncName(ErrorName), generated.parsers)

\* C18 as stated: a page declared at /error is no case of the route or
\* submit dispatch and has no state-provider method or parameter parser, and a
\* route callback for /error ends in the unknown-route not-found error.
C18_ErrorPageNotFound ==
    (generated.called /\ DeclaresErrorPage) =>
        /\ ErrorPageNotGenerated
        /\ (errorRouted.kind = "route" /\ errorRouted.req = ErrorPath)
               => errorRouted.result.kind = "default"

\* C18, amended: a page declared at /error is no case of the route or submit
\* dispatch and has no state-provider method or parameter parser, and a route
\* callback for /error is dispatched like an undeclared path: to the
\* parameterized page whose pattern matches /error if one is a matcher
\* case, and to the unknown-route not-found error otherwise.
C18_ErrorPageLikeUndeclared ==
    (generated.called /\ DeclaresErrorPage) =>
        /\ ErrorPageNotGenerated
        /\ (errorRouted.kind = "route" /\ errorRouted.req = ErrorPath) =>
               LET matching == {p \in errorDoc :
                                   /\ PathParams(p) # {}
                                   /\ Match(Compile(normalizePathPattern(p.path)), ErrorPath)}
               IN IF matching = {} THEN errorRouted.result = [kind |-> "default", path |-> NotFound]
                  ELSE /\ errorRouted.result.kind = "matcher"
                       /\ errorRouted.result.path \in {p.path : p \in matching}

\* A document declares /error with a form and a parameter, and a route
\* callback for /error has been dispatched to the page /{id}.
C18_Witness ==
    /\ generated.called
    /\ \E p \in errorDoc : p.path = ErrorPath /\ p.form /\ p.params # {}
    /\ errorRouted.kind = "route"
    /\ errorRouted.req = ErrorPath
    /\ errorRouted.result = [kind |-> "matcher", path |-> PAny]

-----------------------------------------------------------------------------
(* Button sources: Buttons.UnmarshalYAML, collectButtonGrids, renderButtons *)

\* YAML nodes of the buttons section: a node that is not there, a scalar, a
\* mapping with a key and the node under it, a sequence of nodes.  The rows
\* of a grid and a pagination block are kept as a label.
AbsentNode == [kind |-> "absent"]
ScalarNode == [kind |-> "scalar"]
RowsNode(label) == [kind |-> "rows", label |-> label]
PaginationNode(label) == [kind |-> "pagination", label |-> label]
MappingNode(key, value) == [kind |-> "map", key |-> key, value |-> value]
SequenceNode(items) == [kind |-> "seq", items |-> items]

\* The two kinds of ButtonGrider.
ButtonGrid(rows) == [type |-> "ButtonGrid", rows |-> rows]
Pagination(label) == [type |-> "Pagination", label |-> label]

NoRows == "none"

\* decodeButtonGridNode: node.Decode into a ButtonGrid; a node without rows
\* gives the grid with no rows.
decodeButtonGridNode(node) ==
    IF node.kind = "rows" THEN ButtonGrid(node.label)
    ELSE IF node.kind = "map" /\ node.key = "rows" THEN ButtonGrid(node.value.label)
    ELSE ButtonGrid(NoRows)

\* decodeButtonGridItem: an entry of the grids list.
decodeButtonGridItem(node) ==
    IF node.kind # "map" THEN [err |-> "button grid item must be a map", grid |-> ButtonGrid(NoRows)]
    ELSE IF node.key = "pagination" THEN [err |-> "", grid |-> Pagination(node.value.label)]
    ELSE IF node.key = "grid" THEN [err |-> "", grid |-> decodeButtonGridNode(node.value)]
    ELSE [err |-> "", grid |-> decodeButtonGridNode(node)]

RECURSIVE decodeGridsFrom(_, _)
decodeGridsFrom(items, grids) ==
    IF items = <<>> THEN [err |-> "", grids |-> grids]
    ELSE LET item == decodeButtonGridItem(Head(items))
         IN IF item.err # "" THEN [err |-> item.err, grids |-> <<>>]
            ELSE decodeGridsFrom(Tail(items), Append(grids, item.grid))

NilGrider == [type |-> "nil"]

\* Buttons.UnmarshalYAML
UnmarshalButtons(node) ==
    LET Grid == IF node.grid.kind # "absent" THEN decodeButtonGridNode(node.grid) ELSE NilGrider
        Pag == IF node.pagination.kind # "absent" THEN Pagination(node.pagination.label)
               ELSE NilGrider
        list == IF node.grids.kind = "seq" THEN decodeGridsFrom(node.grids.items, <<>>)
                ELSE [err |-> "", grids |-> <<>>]
    IN [err |-> list.err, Grid |-> Grid, Pagination |-> Pag, Grids |-> list.grids]

NavbarRows == "navbar"

\* A collection that stops at the first source that is set.
collectFirstSource(buttons, navbar) ==
    IF buttons.Grid # NilGrider THEN <<buttons.Grid>>
    ELSE IF buttons.Pagination # NilGrider THEN <<buttons.Pagination>>
    ELSE buttons.Grids

collectButtonGrids(buttons, navbar) ==
    (IF buttons.Grid # NilGrider THEN <<buttons.Grid>> ELSE <<>>)
        \o (IF buttons.Pagination # NilGrider THEN <<buttons.Pagination>> ELSE <<>>)
        \o buttons.Grids
        \o (IF navbar THEN <<ButtonGrid(NavbarRows)>> ELSE <<>>)

\* buttonGridsExpr: the grid expressions of the ButtonGrid field, the one
\* expression by itself or the arguments of appendButtonGrids in order.
buttonGridsExpr(grids) ==
    IF Len(grids) = 1 THEN [call |-> "", args |-> grids]
    ELSE [call |-> "appendButtonGrids", args |-> grids]

-----------------------------------------------------------------------------
(* The button sources specification                                        *)

MaxGrids == 2

GridItemNodes ==
    {MappingNode("grid", RowsNode("a")), MappingNode("rows", RowsNode("b")),
     MappingNode("pagination", PaginationNode("q")), MappingNode("other", ScalarNode),
     ScalarNode}

GridsNodes ==
    {AbsentNode, ScalarNode}
        \cup {SequenceNode(items) : items \in UNION {[1..n -> GridItemNodes] : n \in 0..MaxGrids}}

ButtonsNodes ==
    [grid : {AbsentNode, RowsNode("g")}, pagination : {AbsentNode, PaginationNode("p")},
     grids : GridsNodes, navbar : BOOLEAN]

BtnInit ==
    /\ buttonsNode \in ButtonsNodes
    /\ buttonsOut = NotRenderedButtons
    /\ DispIdle
    /\ ConvIdle
    /\ ValIdle
    /\ FormIdle
    /\ PagIdle
    /\ I18nIdle
    /\ ExprIdle
    /\ NormIdle
    /\ PipeIdle
    /\ CompIdle
    /\ MgrIdle
    /\ ParamIdle
    /\ ErrIdle
    /\ GenIdle
    /\ HlpIdle
    /\ TxtIdle
    /\ RtrIdle
    /\ NamIdle

\* The document is read and the page's view is rendered: the buttons node is
\* decoded, and renderButtons writes the ButtonGrid field of the message.
RenderButtons ==
    /\ ~buttonsOut.called
    /\ LET buttons == UnmarshalButtons(buttonsNode)
       IN buttonsOut' =
              IF buttons.err # "" THEN [called |-> TRUE, err |-> buttons.err, grids |-> <<>>]
              ELSE [called |-> TRUE, err |-> "",
                    grids |-> buttonGridsExpr(collectButtonGrids(buttons, buttonsNode.navbar)).args]
    /\ UNCHANGED buttonsNode
    /\ UNCHANGED notBtnVars

BtnNext == RenderButtons

SpecButtons == BtnInit /\ [][BtnNext]_vars

\* The grid a well-formed entry of the grids list stands for.
GridOfItem(node) ==
    IF node.key = "pagination" THEN Pagination(node.value.label)
    ELSE IF node.key \in {"grid", "rows"} THEN ButtonGrid(node.value.label)
    ELSE ButtonGrid(NoRows)

HasGridsList == buttonsNode.grids.kind = "seq"

WellFormedGrids ==
    HasGridsList => \A i \in 1..Len(buttonsNode.grids.items) : buttonsNode.grids.items[i].kind = "map"

\* The sources that are present, in the order single grid, pagination, the
\* entries of the grids list.
ExpectedGrids ==
    (IF buttonsNode.grid.kind # "absent" THEN <<ButtonGrid(buttonsNode.grid.label)>> ELSE <<>>)
        \o (IF buttonsNode.pagination.kind # "absent"
            THEN <<Pagination(buttonsNode.pagination.label)>> ELSE <<>>)
        \o (IF HasGridsList
            THEN [i \in 1..Len(buttonsNode.grids.items) |-> GridOfItem(buttonsNode.grids.items[i])]
            ELSE <<>>)

-----------------------------------------------------------------------------
(* Runs of the generator: prepare, render, format.Source                   *)

IsUpper(c) == c \in UpperLetters

\* The number of upper-case letters s starts with.
RECURSIVE UpperRun(_)
UpperRun(s) == IF s # <<>> /\ IsUpper(Head(s)) THEN 1 + UpperRun(Tail(s)) ELSE 0

lowerFirst(s) ==
    IF s = <<>> THEN s
    ELSE IF Len(s) = 1 THEN ToLower(s)
    ELSE IF IsUpper(s[1]) /\ IsUpper(s[2])
    THEN (IF UpperRun(s) = Len(s) THEN ToLower(s)
          ELSE ToLower(Take(s, UpperRun(s) - 1)) \o Drop(s, UpperRun(s) - 1))
    ELSE ToLower(Take(s, 1)) \o Drop(s, 1)

\* A page's state: none, a reference to a component (allOf with the one
\* $ref, as the normalizer writes a bare name), or an inline schema with the
\* property n.
NoState == [kind |-> "none"]
RefState(name) == [kind |-> "ref", name |-> name]
InlineState == [kind |-> "inline"]

\* generatorContext.prepare for documents whose components and parameters
\* decode: the two checks on the document, then the prepare steps, none of
\* which looks at the state of a page.
prepare(doc) ==
    IF doc.nil THEN "doc is nil"
    ELSE IF doc.pages = {} THEN "no pages defined"
    ELSE ""

\* g.components[refName]: the zero schemaInfo for a name that is not there.
componentNamed(doc, name) == IF name \in doc.components THEN [Name |-> name] ELSE [Name |-> <<>>]

\* stateInfo: the fields of the StatePage<Name> struct.
stateInfo(doc, page) ==
    IF page.state.kind = "none" THEN <<>>
    ELSE IF page.state.kind = "ref"
    THEN LET component == componentNamed(doc, page.state.name)
         IN <<[GoName |-> lowerFirst(component.Name), GoType |-> component.Name]>>
    ELSE <<[GoName |-> <<"n">>, GoType |-> <<"i", "n", "t">>]>>

\* render: of the source text, the state struct and its constructor for
\* each page of g.pages; the /error page has a renderer only.
RECURSIVE renderStateStructs(_, _)
renderStateStructs(doc, pages) ==
    IF pages = <<>> THEN <<>>
    ELSE <<[name |-> pageNameFromPath(Head(pages).path), fields |-> stateInfo(doc, Head(pages))]>>
             \o renderStateStructs(doc, Tail(pages))

render(doc) == renderStateStructs(doc, preparePages(doc.pages))

\* format.Source: the text does not parse when a constructor sets a field
\* that has no name (the element `: ,` of a composite literal).
formatSource(content) ==
    IF \E i \in 1..Len(content) : \E k \in 1..Len(content[i].fields) :
           content[i].fields[k].GoName = <<>>
    THEN [err |-> "syntax error", output |-> <<>>]
    ELSE [err |-> "", output |-> content]

\* Generator.Generate
generate(doc) ==
    IF prepare(doc) # "" THEN [err |-> prepare(doc), output |-> <<>>]
    ELSE formatSource(render(doc))

\* Generator.GenerateRaw
generateRaw(doc) ==
    IF prepare(doc) # "" THEN [err |-> prepare(doc), output |-> <<>>]
    ELSE [err |-> "", output |-> render(doc)]

-----------------------------------------------------------------------------
(* The generator runs specification                                        *)

ItemName == <<"I", "t", "e", "m">>
BoxName == <<"B", "o", "x">>

PageStates == {NoState, RefState(ItemName), RefState(BoxName), InlineState}

\* Documents with up to three pages, one of them /error, and with the
\* component Item or with no component; no document defines Box.
GenDocs ==
    {NilDoc} \cup
    {[nil |-> FALSE, pages |-> pages, components |-> components] :
        pages \in {d \in SUBSET [path : {PRoot, PXNew, ErrorPath}, state : PageStates] :
                      \A p, q \in d : p.path = q.path => p = q},
        components \in {{}, {ItemName}}}

GenInit ==
    /\ genDoc \in GenDocs
    /\ genOut = NoRun
    /\ DispIdle
    /\ ConvIdle
    /\ ValIdle
    /\ FormIdle
    /\ PagIdle
    /\ I18nIdle
    /\ ExprIdle
    /\ NormIdle
    /\ PipeIdle
    /\ CompIdle
    /\ MgrIdle
    /\ ParamIdle
    /\ ErrIdle
    /\ BtnIdle
    /\ HlpIdle
    /\ TxtIdle
    /\ RtrIdle
    /\ NamIdle

GenerateRun ==
    /\ ~genOut.called
    /\ genOut' = [called |-> TRUE, entry |-> "Generate",
                  err |-> generate(genDoc).err, output |-> generate(genDoc).output]
    /\ UNCHANGED genDoc
    /\ UNCHANGED notGenVars

GenerateRawRun ==
    /\ ~genOut.called
    /\ genOut' = [called |-> TRUE, entry |-> "GenerateRaw",
                  err |-> generateRaw(genDoc).err, output |-> generateRaw(genDoc).output]
    /\ UNCHANGED genDoc
    /\ UNCHANGED notGenVars

GenNext == GenerateRun \/ GenerateRawRun

SpecGenerate == GenInit /\ [][GenNext]_vars

\* A page's state references a component the document does not define.
UndefinedStateRef(doc) ==
    \E p \in doc.pages : p.state.kind = "ref" /\ p.state.name \notin doc.components

\* C20: for a document that is absent, that defines no pages, or that has a
\* page whose state references a component not defined under components,
\* every run of the generator returns an error and no output.
C20_InconsistentDocAborts ==
    (genOut.called /\ (genDoc.nil \/ genDoc.pages = {} \/ UndefinedStateRef(genDoc)))
        => (genOut.err # "" /\ genOut.output = <<>>)

-----------------------------------------------------------------------------
(* Pagination helper emission: paginationHelperName, paginationHelpers,    *)
(* paginationLines and the callback data of the emitted helper             *)

PaginationPrefix == <<"p", "a", "g", "i", "n", "a", "t", "i", "o", "n">>

\* hasPagination on the buttons of a page.
hasPagination(page) == page.paginates

\* paginationHelperName: the prefix alone for at most one paginating page
\* of g.pages, otherwise the prefix and the name of the last of them.
RECURSIVE lastPaginatingName(_, _)
lastPaginatingName(pages, pageName) ==
    IF pages = <<>> THEN pageName
    ELSE lastPaginatingName(Tail(pages),
             IF hasPagination(Head(pages)) THEN pageNameFromPath(Head(pages).path)
             ELSE pageName)

paginationHelperName(pages) ==
    IF Len(SelectSeq(pages, hasPagination)) <= 1 THEN PaginationPrefix
    ELSE PaginationPrefix \o lastPaginatingName(pages, <<>>)

\* strings.EqualFold on ASCII names.
EqualFold(a, b) == ToLower(a) = ToLower(b)

\* paginationParamKey: the page's own query parameter of that name, in the
\* spelling the page declares, or the fallback.
paginationParamKey(page, fallback) ==
    LET named == {q \in page.query : EqualFold(q, fallback)}
    IN IF named = {} THEN fallback ELSE CHOOSE q \in named : TRUE

helperFor(name, page) ==
    [name |-> name, path |-> page.path,
     rowKey |-> paginationParamKey(page, <<"r", "o", "w">>),
     colKey |-> paginationParamKey(page, <<"c", "o", "l", "u", "m", "n">>),
     pageKey |-> paginationParamKey(page, <<"p", "a", "g", "e">>)]

\* paginationHelpers: the pages of g.pages in order, a helper for the first
\* paginating page of each helper name not seen before.
RECURSIVE paginationHelpersFrom(_, _, _)
paginationHelpersFrom(pages, all, seen) ==
    IF pages = <<>> THEN <<>>
    ELSE IF hasPagination(Head(pages)) /\ paginationHelperName(all) \notin seen
    THEN <<helperFor(paginationHelperName(all), Head(pages))>>
             \o paginationHelpersFrom(Tail(pages), all, seen \cup {paginationHelperName(all)})
    ELSE paginationHelpersFrom(Tail(pages), all, seen)

paginationHelpers(pages) == paginationHelpersFrom(pages, pages, {})

\* paginationLines: the helper the renderer of a paginating page calls, for
\* the pages of g.pages and for the /error page, whose renderer writes its
\* buttons the same way.
helperCalls(doc) ==
    [path \in {p.path : p \in {q \in doc : hasPagination(q)}} |->
        paginationHelperName(preparePages(doc))]

\* The emitted helper, run: the control row it appends for the page number
\* and the total it is called with, one item to a page.  The callback data
\* of a control is the format the helper was emitted with, filled in.
helperControls(helper, page, total) ==
    LET data(target) == [path |-> helper.path, rowKey |-> helper.rowKey,
                         colKey |-> helper.colKey, pageKey |-> helper.pageKey,
                         rows |-> 1, columns |-> 1, page |-> target]
        prev == IF page # 0 THEN <<[kind |-> "prev", data |-> data(page - 1)]>> ELSE <<>>
        next == IF ~isLastPage(page, 1, total)
                THEN <<[kind |-> "next", data |-> data(page + 1)]>> ELSE <<>>
    IN prev \o next

-----------------------------------------------------------------------------
(* The pagination helpers specification                                    *)

PItems == <<"/", "i", "t", "e", "m", "s">>

RowParam == <<"R", "o", "w">>

\* The pages / , /items and /x/new, each paginating or not, a paginating
\* page with or without its own query parameter Row; the /error page, whose
\* view may paginate too.
HelperPages ==
    [path : {PRoot, PItems, PXNew}, paginates : {FALSE}, query : {{}}]
        \cup [path : {PRoot, PItems, PXNew}, paginates : {TRUE}, query : {{}, {RowParam}}]
        \cup [path : {ErrorPath}, paginates : BOOLEAN, query : {{}}]

HelperDocs ==
    {d \in SUBSET HelperPages :
        /\ d # {}
        /\ \A p, q \in d : p.path = q.path => p = q}

HlpInit ==
    /\ helperDoc \in HelperDocs
    /\ helperGen = NoHelpers
    /\ shown = NotShown
    /\ DispIdle
    /\ ConvIdle
    /\ ValIdle
    /\ FormIdle
    /\ PagIdle
    /\ I18nIdle
    /\ ExprIdle
    /\ NormIdle
    /\ PipeIdle
    /\ CompIdle
    /\ MgrIdle
    /\ ParamIdle
    /\ ErrIdle
    /\ BtnIdle
    /\ GenIdle
    /\ TxtIdle
    /\ RtrIdle
    /\ NamIdle

\* Generate: renderHelpers writes the pagination helpers, renderPageRenderer
\* the renderers with their calls.
GenerateHelpers ==
    /\ ~helperGen.called
    /\ helperGen' = [called |-> TRUE,
                     helpers |-> paginationHelpers(preparePages(helperDoc)),
                     calls |-> helperCalls(helperDoc)]
    /\ UNCHANGED <<helperDoc, shown>>
    /\ UNCHANGED notHlpVars

EmittedNames == {helperGen.helpers[i].name : i \in 1..Len(helperGen.helpers)}

\* The generated package builds only if every helper that is called exists.
Builds == \A path \in DOMAIN helperGen.calls : helperGen.calls[path] \in EmittedNames

\* The renderer of a paginating page runs and calls its helper.
RenderPaginated(path, page, total) ==
    /\ helperGen.called
    /\ Builds
    /\ path \in DOMAIN helperGen.calls
    /\ LET helper == CHOOSE h \in {helperGen.helpers[i] : i \in 1..Len(helperGen.helpers)} :
                         h.name = helperGen.calls[path]
       IN shown' = [called |-> TRUE, path |-> path, controls |-> helperControls(helper, page, total)]
    /\ UNCHANGED <<helperDoc, helperGen>>
    /\ UNCHANGED notHlpVars

RenderPaginatedStep ==
    \E path \in {PRoot, PItems, PXNew, ErrorPath}, page \in {0, 1}, total \in {1, 3} :
        RenderPaginated(path, page, total)

HlpNext == GenerateHelpers \/ RenderPaginatedStep

SpecHelpers == HlpInit /\ [][HlpNext]_vars

PaginatingPages == {p \in helperDoc : p.paginates}

\* C21: whenever at least one page uses pagination, exactly one pagination
\* helper is emitted and every paginating page's renderer calls a helper
\* that is emitted; the helper is named pagination when exactly one page
\* paginates, and otherwise pagination followed by the name of one of the
\* paginating pages.
C21_OneHelperEmitted ==
    (helperGen.called /\ PaginatingPages # {}) =>
        /\ Len(helperGen.helpers) = 1
        /\ \A p \in PaginatingPages :
               p.path \in DOMAIN helperGen.calls /\ helperGen.calls[p.path] \in EmittedNames
        /\ \A i \in 1..Len(helperGen.helpers) :
               IF Cardinality(PaginatingPages) = 1
               THEN helperGen.helpers[i].name = PaginationPrefix
               ELSE \E p \in PaginatingPages :
                        helperGen.helpers[i].name = PaginationPrefix \o pageNameFromPath(p.path)

\* C28: the prev and next controls produced when rendering a paginated page
\* carry callback data whose path is that page's own path, with the page's
\* own row, column and page query keys, also when several pages paginate.
C28_ControlsCarryOwnPath ==
    shown.called =>
        \A i \in 1..Len(shown.controls) :
            LET page == CHOOSE p \in helperDoc : p.path = shown.path
                data == shown.controls[i].data
            IN /\ data.path = shown.path
               /\ data.rowKey = paginationParamKey(page, <<"r", "o", "w">>)
               /\ data.colKey = paginationParamKey(page, <<"c", "o", "l", "u", "m", "n">>)
               /\ data.pageKey = paginationParamKey(page, <<"p", "a", "g", "e">>)

-----------------------------------------------------------------------------
(* Text handlers: prepareHandlers, handlerCondition, HandleTextMessage     *)

\* prepareHandlers: the handlers with a match, the match trimmed and the
\* match type trimmed and lower-cased; index is the place of the handler in
\* Doc.Handlers.
RECURSIVE prepareHandlersFrom(_, _)
prepareHandlersFrom(handlers, i) ==
    IF i > Len(handlers) THEN <<>>
    ELSE LET match == TrimSpace(handlers[i].match)
         IN (IF match = <<>> THEN <<>>
             ELSE <<[Match |-> match,
                     MatchType |-> ToLower(TrimSpace(handlers[i].matchType)),
                     index |-> i]>>)
            \o prepareHandlersFrom(handlers, i + 1)

prepareHandlers(handlers) == prepareHandlersFrom(handlers, 1)

PrefixType == <<"p", "r", "e", "f", "i", "x">>

\* handlerCondition, evaluated on the text.
handlerCondition(handler, data) ==
    IF handler.MatchType = PrefixType THEN HasPrefix(data, handler.Match)
    ELSE data = handler.Match

DefaultCall == [to |-> "default", index |-> 0]
CommandCall(handler) == [to |-> "command", index |-> handler.index]

\* A HandleTextMessage that goes on to the next handler after a call.
RECURSIVE handleTextEvery(_, _, _, _)
handleTextEvery(handlers, data, registered, fails) ==
    IF handlers = <<>> THEN [calls |-> <<DefaultCall>>, err |-> ""]
    ELSE LET rest == handleTextEvery(Tail(handlers), data, registered, fails)
         IN IF handlerCondition(Head(handlers), data) /\ registered
            THEN [calls |-> <<CommandCall(Head(handlers))>> \o rest.calls, err |-> rest.err]
            ELSE rest

\* The generated HandleTextMessage: the calls it makes and what it returns;
\* fails says whether the method that is called returns an error.
RECURSIVE handleTextMessage(_, _, _, _)
handleTextMessage(handlers, data, registered, fails) ==
    IF handlers = <<>>
    THEN [calls |-> <<DefaultCall>>,
          err |-> IF fails THEN "failed to handle text message in default handler" ELSE ""]
    ELSE IF handlerCondition(Head(handlers), data) /\ registered
    THEN [calls |-> <<CommandCall(Head(handlers))>>,
          err |-> IF fails THEN "failed to handle command" ELSE ""]
    ELSE handleTextMessage(Tail(handlers), data, registered, fails)

-----------------------------------------------------------------------------
(* The text handlers specification                                         *)

MaxHandlers == 2

CmdStart == <<"/", "s", "t", "a", "r", "t">>
CmdSt == <<"/", "s", "t">>

HandlerDecls ==
    [match : {CmdStart, CmdSt, <<" ">> \o CmdStart, <<>>},
     matchType : {<<>>, PrefixType, <<"p", "r", "E", "F", "I", "X", " ">>}]

HandlerDocs ==
    [handlers : UNION {[1..n -> HandlerDecls] : n \in 0..MaxHandlers}, registered : BOOLEAN]

TextInputs == {CmdStart, CmdSt, CmdStart \o <<" ", "x">>, <<"h", "i">>}

TxtInit ==
    /\ handlersDoc \in HandlerDocs
    /\ textCalls = NoTextCall
    /\ DispIdle
    /\ ConvIdle
    /\ ValIdle
    /\ FormIdle
    /\ PagIdle
    /\ I18nIdle
    /\ ExprIdle
    /\ NormIdle
    /\ PipeIdle
    /\ CompIdle
    /\ MgrIdle
    /\ ParamIdle
    /\ ErrIdle
    /\ BtnIdle
    /\ GenIdle
    /\ HlpIdle
    /\ RtrIdle
    /\ NamIdle

\* A connector passes a text to the HandleTextMessage generated for the
\* document.
HandleText(data, fails) ==
    /\ ~textCalls.called
    /\ LET result == handleTextMessage(prepareHandlers(handlersDoc.handlers), data,
                                       handlersDoc.registered, fails)
       IN textCalls' = [called |-> TRUE, data |-> data, calls |-> result.calls, err |-> result.err]
    /\ UNCHANGED handlersDoc
    /\ UNCHANGED notTxtVars

TxtNext == \E data \in TextInputs, fails \in BOOLEAN : HandleText(data, fails)

SpecText == TxtInit /\ [][TxtNext]_vars

\* Whether the condition of the i-th declared handler holds for the text:
\* the text equals its match string, or starts with it for a prefix match.
ConditionHolds(i, data) ==
    LET decl == handlersDoc.handlers[i]
        match == TrimSpace(decl.match)
    IN /\ match # <<>>
       /\ IF ToLower(TrimSpace(decl.matchType)) = PrefixType THEN HasPrefix(data, match)
          ELSE data = match

\* C22: HandleTextMessage tests the declared handlers in declaration order:
\* with a command handler registered, the first handler whose condition holds
\* is the one call made, and no other handler and not the default handler is
\* called; a text that matches no handler goes to the default handler, once.
C22_FirstMatchingHandler ==
    textCalls.called =>
        LET matching == {i \in 1..Len(handlersDoc.handlers) : ConditionHolds(i, textCalls.data)}
        IN IF handlersDoc.registered /\ matching # {}
           THEN textCalls.calls =
                    <<[to |-> "command", index |-> CHOOSE i \in matching : \A j \in matching : i <= j]>>
           ELSE textCalls.calls = <<DefaultCall>>

\* Two handlers are declared whose conditions both hold for /start, a
\* command handler is registered, and the text /start has been handled.
C22_Witness ==
    /\ textCalls.called
    /\ textCalls.data = CmdStart
    /\ handlersDoc.registered
    /\ Len(handlersDoc.handlers) = 2
    /\ ConditionHolds(1, CmdStart)
    /\ ConditionHolds(2, CmdStart)
    /\ handlersDoc.handlers[1] # handlersDoc.handlers[2]

-----------------------------------------------------------------------------
(* One text update against a form in progress: the for loop of handleUpdate *)

\* The validation error messages sent so far while handling the current
\* update.
ValidationErrorsSent == {k \in 1..Len(sent) : sent[k].kind = "invalid"}

\* C23: handling one text update while a form is in progress terminates:
\* when the validator of the current field rejects the text, the validation
\* error message is sent exactly once for that update, the stored form keeps
\* its index and values, and the bot goes back to waiting for updates.
C23_RejectionSentOnce ==
    /\ Cardinality(ValidationErrorsSent) <= 1
    /\ (obs.kind = "form" /\ ~obs.accepted) => session.form = obs.before

-----------------------------------------------------------------------------
(* The router of one conversation: CreateRouter, then Push and Back         *)

\* The routes the callbacks of a conversation push.
RouterURLs == {"/", "/a", "/b", "/f", "/x"}

RtrInit ==
    /\ RtrIdle
    /\ DispIdle
    /\ ConvIdle
    /\ ValIdle
    /\ FormIdle
    /\ PagIdle
    /\ I18nIdle
    /\ ExprIdle
    /\ NormIdle
    /\ PipeIdle
    /\ CompIdle
    /\ MgrIdle
    /\ ParamIdle
    /\ ErrIdle
    /\ BtnIdle
    /\ GenIdle
    /\ HlpIdle
    /\ TxtIdle
    /\ NamIdle

RouterCreated == SessionKeyRouterHist \in routerSess.has

\* CreateRouter on the session of the conversation.
RouterCreate ==
    /\ ~RouterCreated
    /\ routerSess' = CreateRouter(routerSess)
    /\ routerOp' = [NoRouterOp EXCEPT !.kind = "create"]
    /\ UNCHANGED notRtrVars

\* Router.Push(url).
RouterPush(url) ==
    /\ RouterCreated
    /\ Len(routerSess.hist) < MaxHist
    /\ routerSess' = Push(routerSess, url)
    /\ routerOp' = [kind |-> "push", url |-> url, returned |-> "",
                    before |-> History(routerSess)]
    /\ UNCHANGED notRtrVars

\* Router.Back().
RouterBack ==
    /\ RouterCreated
    /\ LET r == Back(routerSess)
       IN /\ routerSess' = r.session
          /\ routerOp' = [kind |-> "back", url |-> "", returned |-> r.url,
                          before |-> History(routerSess)]
    /\ UNCHANGED notRtrVars

RtrNext == RouterCreate \/ (\E url \in RouterURLs : RouterPush(url)) \/ RouterBack

SpecRouter == RtrInit /\ [][RtrNext]_vars

\* C24: after CreateRouter and any sequence of Push and Back on the router
\* of one conversation the history is never empty, starts with "/" and has
\* no two equal adjacent entries; a Push of the route on top leaves the
\* history unchanged and Back never removes the last remaining entry.
C24_HistoryWellFormed ==
    RouterCreated =>
        LET hist == History(routerSess)
        IN /\ hist # <<>>
           /\ hist[1] = RootURL
           /\ \A k \in 1..(Len(hist) - 1) : hist[k] # hist[k + 1]
           /\ (routerOp.kind = "push" /\ routerOp.url = routerOp.before[Len(routerOp.before)])
                 => hist = routerOp.before
           /\ (routerOp.kind = "back" /\ Len(routerOp.before) = 1)
                 => hist = routerOp.before

\* The route on top of a history of three entries was pushed again.
C24_Witness ==
    /\ routerOp.kind = "push"
    /\ Len(routerOp.before) = 3
    /\ routerOp.url = routerOp.before[3]
    /\ routerOp.before[3] = RootURL

\* C25: Back on a history of more than one entry removes the top route and
\* returns the route that is on top afterwards (the page visited before the
\* current one); on a history of one entry it returns "/" and leaves the
\* history unchanged.
C25_BackReturnsPrevious ==
    routerOp.kind = "back" =>
        LET before == routerOp.before
            hist == History(routerSess)
        IN IF Len(before) > 1
           THEN /\ hist = SubSeq(before, 1, Len(before) - 1)
                /\ routerOp.returned = hist[Len(hist)]
           ELSE /\ hist = before
                /\ routerOp.returned = RootURL

-----------------------------------------------------------------------------
(* The index of the form in progress                                         *)

FormInProgress == CliSessionKeyInputState \in session.has

\* C26: a form stored in the session has 0 <= Idx < number of fields; a text
\* the form rejects leaves the index, an accepted one raises it by exactly
\* one, and when the index reaches the number of fields the form is removed
\* from the session, so that the submit callback is dispatched on a session
\* without a form in progress.
C26_FormIndexInRange ==
    /\ FormInProgress =>
          /\ 0 <= session.form.idx
          /\ session.form.idx < Len(session.form.fields)
    /\ submits # <<>> => ~FormInProgress
    /\ obs.kind = "form" =>
          IF ~obs.accepted
          THEN FormInProgress /\ session.form.idx = obs.before.idx
          ELSE IF obs.before.idx + 1 = Len(obs.before.fields)
          THEN ~FormInProgress /\ Len(submits) = 1
          ELSE /\ FormInProgress
               /\ session.form.idx = obs.before.idx + 1
               /\ submits = <<>>

\* The first field of a two-field form has a validator and took a text:
\* the form is stored with index one.
C26_Witness ==
    /\ obs.kind = "form"
    /\ obs.accepted
    /\ obs.before.idx = 0
    /\ obs.before.fields[1].validator # ""
    /\ FormInProgress
    /\ session.form.idx = 1
    /\ Len(session.form.fields) = 2

-----------------------------------------------------------------------------
(* Which branch of HandleUpdate an update takes                              *)

\* The updates that carry callback data, by what the dispatch made of them.
CallbackKinds == {"route", "lang", "badlang"}

\* What only the text branches send: the text handed to HandleTextMessage,
\* a validation error, the submit of a completed form.
TextBranchKinds == {"text", "invalid", "submitted"}

UpdatePriorityStep ==
    /\ obs'.kind \in CallbackKinds =>
          /\ \A k \in 1..Len(sent') : sent'[k].kind \notin TextBranchKinds
          /\ submits' = <<>>
          /\ \/ /\ FormInProgress' <=> FormInProgress
                /\ session'.form = session.form
             \/ /\ FormInProgress'
                /\ session'.form \in Forms
                /\ sent' = <<Msg("prompt", session'.form.fields[1].id)>>
    /\ obs'.kind = "form" =>
          /\ FormInProgress
          /\ obs'.before = session.form
          /\ \A k \in 1..Len(sent') : sent'[k].kind # "text"
    /\ obs'.kind = "text" =>
          /\ ~FormInProgress
          /\ sent' = <<Msg("text", obs'.text)>>
          /\ session' = session

\* C27: an update with callback data is dispatched as callback data, and it
\* leaves the form in progress as it is unless the page it renders sends a
\* new form; a text update is the input of the current field whenever a form
\* is in progress, a text that spells a registered command included, and
\* goes to HandleTextMessage only when no form is in progress.
C27_UpdatePriority == [][UpdatePriorityStep]_vars

\* The text /start was taken as the input of the first field of a form in
\* progress, after a route callback to a plain page left the form stored.
C27_Witness ==
    /\ obs.kind = "form"
    /\ obs.text = StartCommand
    /\ obs.accepted
    /\ obs.before.idx = 0
    /\ session.hist = <<RootURL, "/a">>

-----------------------------------------------------------------------------
(* Page names: preparePages over the paths of one document                  *)

MaxNamedPages == 3

\* The paths the pages of a document are declared under.
NamedPaths ==
    {<<"/">>, <<"/", "a">>, <<"/", "A">>, <<"/", "a", "/", "b">>,
     <<"/", "x", "/", "e">>, <<"/", "x", "/", "{", "i", "d", "}", "/", "e">>,
     <<"/", "x", "/", "{", "i", "d", "}">>, <<"/", "{", "i", "d", "}">>,
     <<"/", "i", "d">>, ErrorPath}

NamedDocs ==
    {{[path |-> path] : path \in paths} :
        paths \in {P \in SUBSET NamedPaths : P # {} /\ Cardinality(P) <= MaxNamedPages}}

NamInit ==
    /\ namedDoc \in NamedDocs
    /\ pageNames = NoPageNames
    /\ DispIdle
    /\ ConvIdle
    /\ ValIdle
    /\ FormIdle
    /\ PagIdle
    /\ I18nIdle
    /\ ExprIdle
    /\ NormIdle
    /\ PipeIdle
    /\ CompIdle
    /\ MgrIdle
    /\ ParamIdle
    /\ ErrIdle
    /\ BtnIdle
    /\ GenIdle
    /\ HlpIdle
    /\ TxtIdle
    /\ RtrIdle

\* preparePages: every page but /error gets pageNameFromPath of its
\* normalized path as its name.
PreparePages ==
    /\ ~pageNames.called
    /\ LET pages == preparePages(namedDoc)
       IN pageNames' = [called |-> TRUE,
                        pages |-> [i \in 1..Len(pages) |->
                                      [path |-> pages[i].path,
                                       name |-> pageNameFromPath(pages[i].path)]]]
    /\ UNCHANGED namedDoc
    /\ UNCHANGED notNamVars

NamNext == PreparePages

SpecNames == NamInit /\ [][NamNext]_vars

\* C29: the pages of one document that are not the /error page get pairwise
\* distinct names, so that no two of them share a parameter parser, a state
\* type, a provider method or a renderer.
C29_DistinctPageNames ==
    pageNames.called =>
        \A i, j \in 1..Len(pageNames.pages) :
            pageNames.pages[i].path # pageNames.pages[j].path
                => /\ pageNames.pages[i].name # pageNames.pages[j].name
                   /\ parserFuncName(pageNames.pages[i].name)
                         # parserFuncName(pageNames.pages[j].name)
                   /\ providerMethodName(pageNames.pages[i].name)
                         # providerMethodName(pageNames.pages[j].name)

-----------------------------------------------------------------------------
(* Quoted literals inside expression spans                                   *)

MaxQuoted == 2

QuoteChars == {"\"", "'", BackQuote}

ExprQuotedKey == <<"\"", "h", "i", "\"">>
ExprSingleQuotedKey == <<"'", "h", "i", "'">>
ExprBackQuotedKey == <<BackQuote, "h", "i", BackQuote>>
ExprQuotedParameter == <<"\"">> \o ExprParameterID \o <<"\"">>
ExprCall == <<"c", "(", "h", "i", ",", " ", "\"", "h", "i", "\"", ")">>
ExprPlain == <<"\"", "n", "o", "\"">>

QuotedSpans ==
    {Span(ExprQuotedKey), Span(ExprSingleQuotedKey), Span(ExprBackQuotedKey),
     Span(ExprQuotedParameter), Span(ExprCall), Span(ExprPlain), Span(KeyHi),
     Span(ExprParameterID)}

QuotedInputs ==
    [pieces : UNION {[1..n -> QuotedSpans] : n \in 1..MaxQuoted},
     params : SUBSET {ParamID}, keys : SUBSET {KeyHi}]

QuoteInit ==
    /\ exprIn \in QuotedInputs
    /\ exprOut = NotRewritten
    /\ DispIdle
    /\ ConvIdle
    /\ ValIdle
    /\ FormIdle
    /\ PagIdle
    /\ I18nIdle
    /\ NormIdle
    /\ PipeIdle
    /\ CompIdle
    /\ MgrIdle
    /\ ParamIdle
    /\ ErrIdle
    /\ BtnIdle
    /\ GenIdle
    /\ HlpIdle
    /\ TxtIdle
    /\ RtrIdle
    /\ NamIdle

SpecExprQuotes == QuoteInit /\ [][ExprNext]_vars

\* The position of the quote that closes the run opened before position i,
\* or the end of the expression when the run is not closed.
RECURSIVE closingQuote(_, _, _)
closingQuote(expr, i, quote) ==
    IF i > Len(expr) THEN Len(expr)
    ELSE IF expr[i] = quote THEN i
    ELSE IF quote # BackQuote /\ expr[i] = "\\" THEN closingQuote(expr, i + 2, quote)
    ELSE closingQuote(expr, i + 1, quote)

\* The position of the first quote character at or after i; 0 without one.
RECURSIVE nextQuote(_, _)
nextQuote(expr, i) ==
    IF i > Len(expr) THEN 0
    ELSE IF expr[i] \in QuoteChars THEN i
    ELSE nextQuote(expr, i + 1)

\* The expression with its quoted runs copied and the text between them
\* rewritten.
RECURSIVE quotedRunsKept(_, _, _)
quotedRunsKept(expr, i, ctx) ==
    IF i > Len(expr) THEN <<>>
    ELSE LET open == nextQuote(expr, i)
         IN IF open = 0 THEN rewriteExpr(SubSeq(expr, i, Len(expr)), ctx)
            ELSE LET close == closingQuote(expr, open + 1, expr[open])
                 IN rewriteExpr(SubSeq(expr, i, open - 1), ctx)
                        \o SubSeq(expr, open, close)
                        \o quotedRunsKept(expr, close + 1, ctx)

\* C30: identifier rewriting leaves the quoted string literals of an
\* expression span as they are: a word inside a single-, double- or
\* back-quoted run (the spelling of an i18n key, of parameters.X, ...) is
\* copied, and only the text outside the quoted runs is rewritten.
C30_QuotedLiteralsKept ==
    exprOut.called =>
        LET ctx == pageExprContext([params |-> exprIn.params, state |-> {}], exprIn.keys)
        IN /\ Len(exprOut.go.args) = Len(exprIn.pieces)
           /\ \A k \in 1..Len(exprIn.pieces) :
                 exprOut.go.args[k] = quotedRunsKept(exprIn.pieces[k].text, 1, ctx)

====
